---- MODULE Spec2Model ----
(***************************************************************************)
(* A model of the sign-in sheet OCR service (abeeha-baig/ocr):             *)
(*   - ClassificationService: the credential catalog scoped per company    *)
(*     and the page workers of process_single_image that share it;         *)
(*   - rate_limited: the pacing decorator around generate_content;         *)
(*   - GeminiClient.generate_content: the retry policy;                    *)
(*   - process_images / process_pdfs_background: the job state machine;   *)
(*   - classify_ocr_results, the aggregation per expense id, process_pdf   *)
(*     with the routing of its pages, its LLM fallback in batches, and the *)
(*     state filtering of process_batch.py.                                *)
(* Each part has its own specification (SpecCatalog, SpecRate, SpecGen,    *)
(* SpecJob, SpecClassify, SpecSave, SpecPdf, SpecFallback, SpecState); the *)
(* variables of the other parts stay at their initial value.               *)
(***************************************************************************)
EXTENDS Integers, Sequences, FiniteSets, TLC

VARIABLES
    \* ClassificationService (one instance shared by the page workers)
    company_id,        \* self.company_id: <<>> is None, <<c>> is company c
    mapping_df,        \* self.mapping_df: [rows, normalized]
    credential_list,   \* self.credential_list
    company_cache,     \* self._company_cache: company id -> cached scope
    worker,            \* page worker of process_single_image: page -> state
    \* rate_limited
    now,               \* time.time(), in ticks
    last_called,       \* last_called[0]
    thread,            \* caller of the wrapper: thread -> state
    call_starts,       \* history: the time at which each call of func started
    \* GeminiClient.generate_content
    gen,               \* one top-level call: [pc, image, log, slept]
    \* job orchestrator
    memory_percent,    \* psutil.virtual_memory().percent
    jobs,              \* the jobs dict: job id -> job record
    task,              \* process_pdfs_background: job id -> locals and position
    http_status,       \* status of the last answer of POST /process-images
    stage_hist,        \* history: the values current_stage took, per job
    services,          \* the service globals lifespan sets: <<>> before startup
    \* aggregation of the page results of one job
    agg,               \* [pc, pages, pending, all_results, saved]
    \* one sequential call of classify_ocr_results
    cls,               \* [pc, rows, text, classified, result]
    \* PDFProcessingService.process_pdf and the routing of its pages
    pdf,               \* [pc, entry, pages_dir, queue, call, runs, ...]
    \* the scope of one page of process_batch.py under state filtering
    stf,               \* [pc, company_id, venue_state, valid, rows, result]
    \* the LLM fallback of process_pdf over a document of many pages
    fb                 \* [pc, npages, tesseract_results, sorted_results, calls, ...]

catVars  == <<company_id, mapping_df, credential_list, company_cache, worker>>
rateVars == <<now, last_called, thread, call_starts>>
genVars  == <<gen>>
jobVars  == <<memory_percent, jobs, task, http_status, stage_hist, services>>
aggVars  == <<agg>>
clsVars  == <<cls>>
pdfVars  == <<pdf>>
stVars   == <<stf>>
fbVars   == <<fb>>
vars     == <<catVars, rateVars, genVars, jobVars, aggVars, clsVars, pdfVars, stVars,
             fbVars>>

Max(a, b) == IF a >= b THEN a ELSE b
Range(s)  == {s[i] : i \in DOMAIN s}

(***************************************************************************)
(* Strings.  TLC's strings are atomic, so the string functions the code    *)
(* uses are tabulated over the vocabulary of the model.                    *)
(***************************************************************************)

\* str.upper() followed by str.strip()
UpperStrip(s) ==
    CASE s = "md"               -> "MD"
      [] s = "MD"               -> "MD"
      [] s = "rn"               -> "RN"
      [] s = "RN"               -> "RN"
      [] s = "Rep"              -> "REP"
      [] s = "Registered Nurse" -> "REGISTERED NURSE"
      [] s = "Sales Rep"        -> "SALES REP"
      [] s = "Sales Reps"       -> "SALES REPS"
      [] s = "XYZ"              -> "XYZ"
      [] s = "xyz"              -> "XYZ"
      [] s = "MDs"              -> "MDS"
      [] s = "Ann"              -> "ANN"
      [] s = "ann"              -> "ANN"
      [] s = "Bob"              -> "BOB"
      [] s = "O'Neil"           -> "O'NEIL"
      [] OTHER                  -> s

\* len(s)
StrLen(s) ==
    CASE s \in {"MD", "RN"}           -> 2
      [] s \in {"XYZ", "MDS", "REP", "Ann", "ann", "Bob", "ANN", "BOB"} -> 3
      [] s \in {"O'Neil", "O'NEIL"}    -> 6
      [] s = "SALES REP"               -> 9
      [] s = "SALES REPS"              -> 10
      [] s = "REGISTERED NURSE"        -> 16
      [] OTHER                         -> 0

\* fuzz.token_sort_ratio(a, b), rounded down to an integer percentage
TokenSortRatio(a, b) ==
    CASE a = b                                             -> 100
      [] a = "SALES REPS" /\ b = "SALES REP"               -> 94
      [] a = "SALES REPS" /\ b = "REP"                     -> 46
      [] a = "SALES REPS" /\ b = "REGISTERED NURSE"        -> 38
      [] a = "SALES REP" /\ b = "REP"                      -> 50
      [] a = "SALES REP" /\ b = "REGISTERED NURSE"         -> 40
      [] a = "REGISTERED NURSE" /\ b = "SALES REP"         -> 40
      [] a = "REGISTERED NURSE" /\ b = "REP"               -> 21
      [] a = "REGISTERED NURSE" /\ b = "MD"                -> 11
      [] a = "REP" /\ b = "SALES REP"                      -> 50
      [] a = "REP" /\ b = "REGISTERED NURSE"               -> 21
      [] a = "RN" /\ b = "REP"                             -> 40
      [] a = "RN" /\ b = "SALES REP"                       -> 18
      [] a = "RN" /\ b = "REGISTERED NURSE"                -> 11
      [] a = "MD" /\ b = "REGISTERED NURSE"                -> 11
      [] a = "MDS" /\ b = "MD"                             -> 80
      [] a = "MDS" /\ b = "SALES REP"                      -> 16
      [] a = "MDS" /\ b = "REGISTERED NURSE"               -> 10
      [] OTHER                                             -> 0

(***************************************************************************)
(* ClassificationService                                                   *)
(***************************************************************************)

MaxPages == 2                 \* page workers running at once in SpecCatalog
FUZZY_MATCH_THRESHOLD == 80
min_fuzzy_length == 5
MAX_WORKERS_PER_BATCH == 8

\* The credential mapping file, in file order.
FullCatalog ==
    << [PossibleNames |-> "md", Credential |-> "MD",
        Classification |-> "HCP", company_id |-> 1],
       [PossibleNames |-> "Registered Nurse", Credential |-> "RN",
        Classification |-> "HCP", company_id |-> 1],
       [PossibleNames |-> "md", Credential |-> "MD",
        Classification |-> "Non-HCP", company_id |-> 2],
       [PossibleNames |-> "Sales Rep", Credential |-> "Rep",
        Classification |-> "Field Employee", company_id |-> 2],
       [PossibleNames |-> "Rep", Credential |-> "Sales Rep",
        Classification |-> "Non-HCP", company_id |-> 2] >>

\* self._full_mapping_df[self._full_mapping_df['company_id'] == company_id]
FilterByCompany(rows, c) ==
    LET Keep(r) == r.company_id = c IN SelectSeq(rows, Keep)

\* The data frame _load_mapping builds for a company id (<<>> is None).
ScopeTo(cid) ==
    [rows |-> IF cid = <<>> THEN FullCatalog ELSE FilterByCompany(FullCatalog, cid[1]),
     normalized |-> TRUE]

\* mapping_df['Credential_Upper'].unique().tolist()
CredentialList(rows) ==
    LET RECURSIVE Uniq(_, _)
        Uniq(i, acc) ==
            IF i > Len(rows) THEN acc
            ELSE LET u == UpperStrip(rows[i].Credential)
                 IN Uniq(i + 1, IF u \in Range(acc) THEN acc ELSE Append(acc, u))
    IN Uniq(1, <<>>)

\* DataExtractionService.extract_company_id_from_ocr: the COMPANY_ID line,
\* 1 when the text has none.
ExtractCompanyId(text) ==
    IF text.company_line = <<>> THEN 1 ELSE text.company_line[1]

\* The first row of rows that satisfies Test, as <<row>>, or <<>>.
FirstRow(rows, Test(_)) ==
    LET hits == SelectSeq(rows, Test) IN IF hits = <<>> THEN <<>> ELSE <<hits[1]>>

\* process.extractOne(credential_upper, possible_names_list, scorer=token_sort_ratio):
\* the first possible name with the highest score, as <<name, score>>.
ExtractOne(credential_upper, rows) ==
    LET Score(i) == TokenSortRatio(credential_upper, UpperStrip(rows[i].PossibleNames))
        best == CHOOSE i \in DOMAIN rows :
                    \A k \in DOMAIN rows :
                        Score(k) < Score(i) \/ (Score(k) = Score(i) /\ i <= k)
    IN <<UpperStrip(rows[best].PossibleNames), Score(best)>>

\* ClassificationService._fuzzy_match_credential: <<row, score>> or <<>>.
FuzzyMatchCredential(credential_upper, rows) ==
    IF rows = <<>> THEN <<>>
    ELSE LET res == ExtractOne(credential_upper, rows)
             IsBest(r) == UpperStrip(r.PossibleNames) = res[1]
         IN IF res[2] >= FUZZY_MATCH_THRESHOLD
            THEN <<FirstRow(rows, IsBest)[1], res[2]>>
            ELSE <<>>

\* Mutant of ClassifyCredential: the canonical credentials are consulted
\* before the possible names.
ClassifyCredentialCredentialFirst(rows, credential_ocr) ==
    LET credential_upper == UpperStrip(credential_ocr)
        ByName(r) == UpperStrip(r.PossibleNames) = credential_upper
        ByCred(r) == UpperStrip(r.Credential) = credential_upper
        m1 == FirstRow(rows, ByName)
        m2 == FirstRow(rows, ByCred)
        fz == IF StrLen(credential_upper) >= min_fuzzy_length
              THEN FuzzyMatchCredential(credential_upper, rows) ELSE <<>>
        Hit(r, score, method) ==
            [Classification |-> r.Classification, Credential_Standardized |-> r.Credential,
             Match_Score |-> score, Match_Method |-> method, company |-> <<r.company_id>>]
    IN IF rows = <<>>
       THEN [Classification |-> "Non-HCP", Credential_Standardized |-> credential_ocr,
             Match_Score |-> 0, Match_Method |-> "no_mapping_data", company |-> <<>>]
       ELSE IF m2 # <<>> THEN Hit(m2[1], 100, "exact_credential")
       ELSE IF m1 # <<>> THEN Hit(m1[1], 100, "exact_possiblenames")
       ELSE IF fz # <<>> THEN Hit(fz[1], fz[2], "fuzzy_possiblenames")
       ELSE [Classification |-> "Non-HCP", Credential_Standardized |-> credential_ocr,
             Match_Score |-> 0, Match_Method |-> "no_match", company |-> <<>>]

\* Mutant of ClassifyCredential: the fuzzy tier is entered whatever the length
\* of the credential.
ClassifyCredentialNoLengthGate(rows, credential_ocr) ==
    LET credential_upper == UpperStrip(credential_ocr)
        ByName(r) == UpperStrip(r.PossibleNames) = credential_upper
        ByCred(r) == UpperStrip(r.Credential) = credential_upper
        m1 == FirstRow(rows, ByName)
        m2 == FirstRow(rows, ByCred)
        fz == FuzzyMatchCredential(credential_upper, rows)
        Hit(r, score, method) ==
            [Classification |-> r.Classification, Credential_Standardized |-> r.Credential,
             Match_Score |-> score, Match_Method |-> method, company |-> <<r.company_id>>]
    IN IF rows = <<>>
       THEN [Classification |-> "Non-HCP", Credential_Standardized |-> credential_ocr,
             Match_Score |-> 0, Match_Method |-> "no_mapping_data", company |-> <<>>]
       ELSE IF m1 # <<>> THEN Hit(m1[1], 100, "exact_possiblenames")
       ELSE IF m2 # <<>> THEN Hit(m2[1], 100, "exact_credential")
       ELSE IF fz # <<>> THEN Hit(fz[1], fz[2], "fuzzy_possiblenames")
       ELSE [Classification |-> "Non-HCP", Credential_Standardized |-> credential_ocr,
             Match_Score |-> 0, Match_Method |-> "no_match", company |-> <<>>]

\* Mutant of ClassifyCredential: an unmatched credential is returned
\* upper-cased.
ClassifyCredentialUpperOnNoMatch(rows, credential_ocr) ==
    LET credential_upper == UpperStrip(credential_ocr)
        ByName(r) == UpperStrip(r.PossibleNames) = credential_upper
        ByCred(r) == UpperStrip(r.Credential) = credential_upper
        m1 == FirstRow(rows, ByName)
        m2 == FirstRow(rows, ByCred)
        fz == IF StrLen(credential_upper) >= min_fuzzy_length
              THEN FuzzyMatchCredential(credential_upper, rows) ELSE <<>>
        Hit(r, score, method) ==
            [Classification |-> r.Classification, Credential_Standardized |-> r.Credential,
             Match_Score |-> score, Match_Method |-> method, company |-> <<r.company_id>>]
    IN IF rows = <<>>
       THEN [Classification |-> "Non-HCP", Credential_Standardized |-> credential_upper,
             Match_Score |-> 0, Match_Method |-> "no_mapping_data", company |-> <<>>]
       ELSE IF m1 # <<>> THEN Hit(m1[1], 100, "exact_possiblenames")
       ELSE IF m2 # <<>> THEN Hit(m2[1], 100, "exact_credential")
       ELSE IF fz # <<>> THEN Hit(fz[1], fz[2], "fuzzy_possiblenames")
       ELSE [Classification |-> "Non-HCP", Credential_Standardized |-> credential_upper,
             Match_Score |-> 0, Match_Method |-> "no_match", company |-> <<>>]

\* ClassificationService.classify_credential against the rows of mapping_df.
ClassifyCredential(rows, credential_ocr) ==
    LET credential_upper == UpperStrip(credential_ocr)
        ByName(r) == UpperStrip(r.PossibleNames) = credential_upper
        ByCred(r) == UpperStrip(r.Credential) = credential_upper
        m1 == FirstRow(rows, ByName)
        m2 == FirstRow(rows, ByCred)
        fz == IF StrLen(credential_upper) >= min_fuzzy_length
              THEN FuzzyMatchCredential(credential_upper, rows) ELSE <<>>
        Hit(r, score, method) ==
            [Classification |-> r.Classification, Credential_Standardized |-> r.Credential,
             Match_Score |-> score, Match_Method |-> method, company |-> <<r.company_id>>]
    IN IF rows = <<>>
       THEN [Classification |-> "Non-HCP", Credential_Standardized |-> credential_ocr,
             Match_Score |-> 0, Match_Method |-> "no_mapping_data", company |-> <<>>]
       ELSE IF m1 # <<>> THEN Hit(m1[1], 100, "exact_possiblenames")
       ELSE IF m2 # <<>> THEN Hit(m2[1], 100, "exact_credential")
       ELSE IF fz # <<>> THEN Hit(fz[1], fz[2], "fuzzy_possiblenames")
       ELSE [Classification |-> "Non-HCP", Credential_Standardized |-> credential_ocr,
             Match_Score |-> 0, Match_Method |-> "no_match", company |-> <<>>]

\* Whether the patterns of extract_field_employee_name match the name s
\* written after "Field Employee:" up to the end of its line: the group
\* [A-Za-z][A-Za-z\s.]+? takes letters, white space and dots only, and has to
\* be followed by a line end or a comma, so a name with any other character
\* (an apostrophe, a hyphen) is matched by neither pattern.
HeaderPatternMatches(s) ==
    CASE s \in {"Ann", "ann", "Bob"} -> TRUE
      [] s = "O'Neil"                -> FALSE
      [] OTHER                       -> FALSE

\* ClassificationService.extract_field_employee_name: the name after
\* "Field Employee:" when a pattern matches it, kept when it has more than
\* 2 characters; None otherwise.
ExtractFieldEmployeeName(text) ==
    IF /\ text.field_employee # <<>>
       /\ HeaderPatternMatches(text.field_employee[1])
       /\ StrLen(text.field_employee[1]) > 2
    THEN text.field_employee ELSE <<>>

\* ClassificationService.parse_ocr_results: one record per line of the form
\* "- Name, Credential"; the other lines are ignored.
ParseOcrResults(text) ==
    LET IsEntry(l) == l.kind = "entry"
        entries == SelectSeq(text.lines, IsEntry)
    IN [i \in DOMAIN entries |->
           [Name |-> entries[i].Name, Credential_OCR |-> entries[i].Credential_OCR]]

\* ClassificationService._override_field_employee
OverrideFieldEmployee(df, field_employee_name) ==
    [i \in DOMAIN df |->
        IF UpperStrip(df[i].Name) = UpperStrip(field_employee_name)
        THEN [df[i] EXCEPT !.Classification = "Field Employee",
                           !.Credential_Standardized = "Field Employee",
                           !.Match_Method = "field_employee_override",
                           !.Match_Score = 100]
        ELSE df[i]]

\* Mutant of RemoveDuplicateNames: the last row of each upper-cased name is
\* kept.
RemoveDuplicateNamesKeepLast(df) ==
    LET Keep(i) == \A k \in (i + 1)..Len(df) : UpperStrip(df[k].Name) # UpperStrip(df[i].Name)
        RECURSIVE Build(_, _)
        Build(i, acc) ==
            IF i > Len(df) THEN acc
            ELSE Build(i + 1, IF Keep(i) THEN Append(acc, df[i]) ELSE acc)
    IN Build(1, <<>>)

\* Mutant of RemoveDuplicateNames: the names are compared as they are written.
RemoveDuplicateNamesCaseSensitive(df) ==
    LET Keep(i) == \A k \in 1..(i - 1) : df[k].Name # df[i].Name
        RECURSIVE Build(_, _)
        Build(i, acc) ==
            IF i > Len(df) THEN acc
            ELSE Build(i + 1, IF Keep(i) THEN Append(acc, df[i]) ELSE acc)
    IN Build(1, <<>>)

\* Mutant of RemoveDuplicateNames: the mask is inverted, the rows kept are
\* the later rows of each upper-cased name.
RemoveDuplicateNamesInverted(df) ==
    LET Keep(i) == \E k \in 1..(i - 1) : UpperStrip(df[k].Name) = UpperStrip(df[i].Name)
        RECURSIVE Build(_, _)
        Build(i, acc) ==
            IF i > Len(df) THEN acc
            ELSE Build(i + 1, IF Keep(i) THEN Append(acc, df[i]) ELSE acc)
    IN Build(1, <<>>)

\* ClassificationService.remove_duplicate_names: keep the first row of each
\* upper-cased name (the names were stripped by parse_ocr_results).
RemoveDuplicateNames(df) ==
    LET Keep(i) == \A k \in 1..(i - 1) : UpperStrip(df[k].Name) # UpperStrip(df[i].Name)
        RECURSIVE Build(_, _)
        Build(i, acc) ==
            IF i > Len(df) THEN acc
            ELSE Build(i + 1, IF Keep(i) THEN Append(acc, df[i]) ELSE acc)
    IN Build(1, <<>>)

Pages == 1..MaxPages

Entry(name, cred) == [kind |-> "entry", Name |-> name, Credential_OCR |-> cred]
Junk == [kind |-> "junk", Name |-> "", Credential_OCR |-> ""]

\* The texts the extraction service answers with in SpecCatalog.
OcrTexts ==
    { [company_line |-> <<1>>, field_employee |-> <<>>,
       lines |-> <<Entry("Ann", "MD")>>],
      [company_line |-> <<2>>, field_employee |-> <<>>,
       lines |-> <<Entry("Bob", "md"), Junk, Entry("Ann", "Sales Reps")>>],
      [company_line |-> <<>>, field_employee |-> <<"Ann">>,
       lines |-> <<Entry("Ann", "rn"), Entry("ann", "XYZ")>>],
      [company_line |-> <<2>>, field_employee |-> <<>>,
       lines |-> <<Junk>>] }

NoText == [company_line |-> <<>>, field_employee |-> <<>>, lines |-> <<>>]

InitCat ==
    /\ company_id = <<>>
    /\ mapping_df = ScopeTo(<<>>)
    /\ credential_list = CredentialList(FullCatalog)
    /\ company_cache = <<>>
    /\ worker = [p \in Pages |->
                   [pc |-> "wait", text |-> NoText, company |-> 1,
                    todo |-> <<>>, out |-> <<>>, result |-> <<>>]]

Running(p) == worker[p].pc \notin {"wait", "done", "failed"}

\* process_signin_pages_batch: the pool starts a queued page task while one
\* of its MAX_WORKERS_PER_BATCH threads is free.
WorkerStart(p) ==
    /\ worker[p].pc = "wait"
    /\ Cardinality({q \in Pages : Running(q)}) < MAX_WORKERS_PER_BATCH
    /\ worker' = [worker EXCEPT ![p].pc = "ocr"]
    /\ UNCHANGED <<company_id, mapping_df, credential_list, company_cache>>
    /\ UNCHANGED <<rateVars, genVars, jobVars, aggVars, clsVars, pdfVars, stVars, fbVars>>

\* process_single_image from the return of process_ocr: the text, its company
\* id, and the records classify_ocr_results parses from it.
OcrReturn(p) ==
    /\ worker[p].pc = "ocr"
    /\ \E text \in OcrTexts :
          worker' = [worker EXCEPT ![p].pc = "set_company",
                                   ![p].text = text,
                                   ![p].company = ExtractCompanyId(text),
                                   ![p].todo = ParseOcrResults(text)]
    /\ UNCHANGED <<company_id, mapping_df, credential_list, company_cache>>
    /\ UNCHANGED <<rateVars, genVars, jobVars, aggVars, clsVars, pdfVars, stVars, fbVars>>

\* reload_with_company_id: self.company_id = company_id
SetCompany(p) ==
    /\ worker[p].pc = "set_company"
    /\ company_id' = <<worker[p].company>>
    /\ worker' = [worker EXCEPT ![p].pc = "load"]
    /\ UNCHANGED <<mapping_df, credential_list, company_cache>>
    /\ UNCHANGED <<rateVars, genVars, jobVars, aggVars, clsVars, pdfVars, stVars, fbVars>>

\* _load_mapping(company_id) up to the assignment of self.mapping_df: the
\* cached scope of the company, or the filtered copy still to be normalised.
LoadMapping(p) ==
    LET c == worker[p].company IN
    /\ worker[p].pc = "load"
    /\ IF c \in DOMAIN company_cache
       THEN /\ mapping_df' = company_cache[c].mapping_df
            /\ credential_list' = company_cache[c].credential_list
            /\ worker' = [worker EXCEPT ![p].pc = "classify"]
       ELSE /\ mapping_df' = [rows |-> FilterByCompany(FullCatalog, c), normalized |-> FALSE]
            /\ credential_list' = credential_list
            /\ worker' = [worker EXCEPT ![p].pc = "normalize"]
    /\ UNCHANGED <<company_id, company_cache>>
    /\ UNCHANGED <<rateVars, genVars, jobVars, aggVars, clsVars, pdfVars, stVars, fbVars>>

\* _load_mapping, the rest: the upper-cased columns are added to whatever
\* self.mapping_df now is, and that frame is cached under company_id.
Normalize(p) ==
    LET c  == worker[p].company
        df == [mapping_df EXCEPT !.normalized = TRUE]
        cl == CredentialList(mapping_df.rows) IN
    /\ worker[p].pc = "normalize"
    /\ mapping_df' = df
    /\ credential_list' = cl
    /\ company_cache' = (c :> [mapping_df |-> df, credential_list |-> cl]) @@ company_cache
    /\ worker' = [worker EXCEPT ![p].pc = "classify"]
    /\ UNCHANGED company_id
    /\ UNCHANGED <<rateVars, genVars, jobVars, aggVars, clsVars, pdfVars, stVars, fbVars>>

\* classify_ocr_results, one iteration of its loop: classify_credential reads
\* self.mapping_df; a frame without its upper-cased columns raises KeyError.
\* Each classified row keeps the rows it was matched against (scope).
ClassifyNext(p) ==
    LET rec == worker[p].todo[1]
        res == ClassifyCredential(mapping_df.rows, rec.Credential_OCR)
        row == [Name |-> rec.Name, Credential_OCR |-> rec.Credential_OCR,
                Credential_Standardized |-> res.Credential_Standardized,
                Classification |-> res.Classification,
                Match_Score |-> res.Match_Score, Match_Method |-> res.Match_Method,
                company |-> res.company, scope |-> mapping_df.rows] IN
    /\ worker[p].pc = "classify"
    /\ worker[p].todo # <<>>
    /\ IF mapping_df.rows # <<>> /\ ~mapping_df.normalized
       THEN worker' = [worker EXCEPT ![p].pc = "failed"]
       ELSE worker' = [worker EXCEPT ![p].todo = Tail(@), ![p].out = Append(@, row)]
    /\ UNCHANGED <<company_id, mapping_df, credential_list, company_cache>>
    /\ UNCHANGED <<rateVars, genVars, jobVars, aggVars, clsVars, pdfVars, stVars, fbVars>>

\* classify_ocr_results after its loop: the field employee override, then
\* remove_duplicate_names.
ClassifyFinish(p) ==
    LET fe  == ExtractFieldEmployeeName(worker[p].text)
        df1 == IF fe # <<>> THEN OverrideFieldEmployee(worker[p].out, fe[1])
               ELSE worker[p].out IN
    /\ worker[p].pc = "classify"
    /\ worker[p].todo = <<>>
    /\ worker' = [worker EXCEPT ![p].pc = "done", ![p].result = RemoveDuplicateNames(df1)]
    /\ UNCHANGED <<company_id, mapping_df, credential_list, company_cache>>
    /\ UNCHANGED <<rateVars, genVars, jobVars, aggVars, clsVars, pdfVars, stVars, fbVars>>

(***************************************************************************)
(* rate_limited: the decorator around GeminiClient.generate_content.       *)
(* Time is counted in ticks of 1/TicksPerSecond seconds.                   *)
(***************************************************************************)

MaxThreads == 2               \* threads calling generate_content
MaxCalls == 2                 \* calls each thread makes
MaxTime == 10                 \* the clock stops here
TicksPerSecond == 3
max_per_minute == 45

Threads == 1..MaxThreads

\* min_interval = 60.0 / max_per_minute
min_interval == (60 * TicksPerSecond) \div max_per_minute

\* The process starts long after the epoch: the first call never waits.
InitRate ==
    /\ now = min_interval
    /\ last_called = 0
    /\ thread = [t \in Threads |-> [pc |-> "idle", wake |-> 0, calls |-> 0]]
    /\ call_starts = <<>>

\* wrapper, up to the call of func: elapsed is read from last_called[0]
\* without a lock; the thread sleeps left_to_wait or calls func at once.
Enter(t) ==
    LET elapsed      == now - last_called
        left_to_wait == min_interval - elapsed IN
    /\ thread[t].pc = "idle"
    /\ thread[t].calls < MaxCalls
    /\ IF left_to_wait > 0
       THEN /\ thread' = [thread EXCEPT ![t].pc = "sleep", ![t].wake = now + left_to_wait]
            /\ call_starts' = call_starts
       ELSE /\ thread' = [thread EXCEPT ![t].pc = "call"]
            /\ call_starts' = Append(call_starts, now)
    /\ UNCHANGED <<now, last_called>>
    /\ UNCHANGED <<catVars, genVars, jobVars, aggVars, clsVars, pdfVars, stVars, fbVars>>

\* time.sleep(left_to_wait) is over: func is called.
Wake(t) ==
    /\ thread[t].pc = "sleep"
    /\ now >= thread[t].wake
    /\ thread' = [thread EXCEPT ![t].pc = "call"]
    /\ call_starts' = Append(call_starts, now)
    /\ UNCHANGED <<now, last_called>>
    /\ UNCHANGED <<catVars, genVars, jobVars, aggVars, clsVars, pdfVars, stVars, fbVars>>

\* func returned: last_called[0] = time.time()
Return(t) ==
    /\ thread[t].pc = "call"
    /\ last_called' = now
    /\ thread' = [thread EXCEPT ![t].pc = "idle", ![t].calls = @ + 1]
    /\ UNCHANGED <<now, call_starts>>
    /\ UNCHANGED <<catVars, genVars, jobVars, aggVars, clsVars, pdfVars, stVars, fbVars>>

\* func raised: the wrapper is left before last_called[0] is assigned.
Raise(t) ==
    /\ thread[t].pc = "call"
    /\ thread' = [thread EXCEPT ![t].pc = "idle", ![t].calls = @ + 1]
    /\ UNCHANGED <<now, last_called, call_starts>>
    /\ UNCHANGED <<catVars, genVars, jobVars, aggVars, clsVars, pdfVars, stVars, fbVars>>

\* Time passes.
Tick ==
    /\ now < MaxTime
    /\ now' = now + 1
    /\ UNCHANGED <<last_called, thread, call_starts>>
    /\ UNCHANGED <<catVars, genVars, jobVars, aggVars, clsVars, pdfVars, stVars, fbVars>>

(***************************************************************************)
(* GeminiClient.generate_content: one top-level call and its retries.      *)
(* An image is <<width, height>>, <<>> is no image; an error is the set of *)
(* the words the handler looks for that its message contains.              *)
(***************************************************************************)

MaxAttempts == 3              \* calls of the service within one top-level call
max_size == 2048
RateLimitSleep == 10

Images == {<<>>, <<1024, 768>>, <<4096, 2048>>, <<1000, 3000>>}
ErrorWords == {"rate", "quota", "timeout"}
Responses == {[ok |-> TRUE, words |-> {}]} \cup {[ok |-> FALSE, words |-> w] : w \in SUBSET ErrorWords}

\* GeminiClient._compress_image
CompressImage(image) ==
    LET width == image[1]
        height == image[2] IN
    IF Max(width, height) <= max_size THEN image
    ELSE IF width > height
         THEN <<max_size, (height * max_size) \div width>>
         ELSE <<(width * max_size) \div height, max_size>>

\* "rate" in error_msg or "quota" in error_msg
IsRateLimit(words) == "rate" \in words \/ "quota" \in words

\* Mutant of OnException: a timeout is retried whether or not the call
\* carries an image.
OnExceptionRetryAnyTimeout(words, image) ==
    IF IsRateLimit(words)
    THEN [pc |-> "request", image |-> image, sleep |-> RateLimitSleep]
    ELSE IF "timeout" \in words
         THEN [pc |-> "request", image |-> image, sleep |-> 0]
         ELSE [pc |-> "raised", image |-> image, sleep |-> 0]

\* generate_content, the except block: what follows an error.
OnException(words, image) ==
    IF IsRateLimit(words)
    THEN [pc |-> "request", image |-> image, sleep |-> RateLimitSleep]
    ELSE IF "timeout" \in words /\ image # <<>>
         THEN [pc |-> "request", image |-> CompressImage(image), sleep |-> 0]
         ELSE [pc |-> "raised", image |-> image, sleep |-> 0]

InitGen == gen = [pc |-> "idle", image |-> <<>>, log |-> <<>>, slept |-> 0]

\* generate_content(prompt, image) is called.
GenCall ==
    /\ gen.pc = "idle"
    /\ \E image \in Images : gen' = [gen EXCEPT !.pc = "request", !.image = image]
    /\ UNCHANGED <<catVars, rateVars, jobVars, aggVars, clsVars, pdfVars, stVars, fbVars>>

\* self.model.generate_content answers: the text, or an exception.
ApiAnswer ==
    /\ gen.pc = "request"
    /\ Len(gen.log) < MaxAttempts
    /\ \E resp \in Responses :
          gen' = [gen EXCEPT !.pc = IF resp.ok THEN "returned" ELSE "except",
                             !.log = Append(@, [ok |-> resp.ok, words |-> resp.words,
                                                image |-> gen.image])]
    /\ UNCHANGED <<catVars, rateVars, jobVars, aggVars, clsVars, pdfVars, stVars, fbVars>>

\* The except block: sleep and call generate_content again, call it again
\* with the compressed image, or re-raise.
GenExcept ==
    LET err  == gen.log[Len(gen.log)]
        next == OnException(err.words, gen.image) IN
    /\ gen.pc = "except"
    /\ gen' = [gen EXCEPT !.pc = next.pc, !.image = next.image, !.slept = @ + next.sleep]
    /\ UNCHANGED <<catVars, rateVars, jobVars, aggVars, clsVars, pdfVars, stVars, fbVars>>

(***************************************************************************)
(* The job orchestrator: process_images, process_pdfs_background and       *)
(* process_signin_pages_batch.  None is <<>>, a value v is <<v>>.           *)
(***************************************************************************)

MaxFiles == 2                 \* files of a small submission
MaxSigninPages == 2           \* sign-in pages found in one job
MaxJobTicks == 2              \* clock ticks of one job
JobTickSeconds == 2000        \* seconds in a clock tick
JOB_TIMEOUT == 3600
HighWaterMark == 85
PDF_BATCH_SIZE == 10
MAX_PDFS_PER_REQUEST == 50

\* Jobs share nothing but the memory reading and are keyed by their own id
\* in the jobs dict: one job id is modelled.
JobIds == {1}
MemoryLevels == {HighWaterMark, HighWaterMark + 1}

\* The numbers of files of a submission: none, a few, one more than a
\* sub-batch, one more than the limit.
FileCounts == (0..MaxFiles) \cup {PDF_BATCH_SIZE + 1, MAX_PDFS_PER_REQUEST + 1}

\* A sign-in page image: the expense id its file name carries, if any.
PageNames == {[expense_id |-> <<>>], [expense_id |-> <<"E1">>], [expense_id |-> <<"E2">>]}

\* The placeholders of OCR_SIGNIN_PROMPT and the arguments format() is given.
PromptFields == {"HCPs", "credential_hints"}
FormatArgs == {"HCPs"}

MemoryLowError == "503: Server memory critically low"

\* check_memory raises when memory.percent > 85.
MemoryLow == memory_percent > HighWaterMark

\* process_single_image: the dict it returns for a page.  expense_id[:20]
\* raises TypeError when the file name carries no expense id, and
\* OCR_SIGNIN_PROMPT.format raises KeyError for a placeholder it is not given;
\* either is caught and returned as an error.
ProcessSingleImage(page) ==
    IF page.expense_id = <<>>
    THEN [expense_id |-> <<>>, error |-> <<"TypeError">>]
    ELSE IF ~(PromptFields \subseteq FormatArgs)
    THEN [expense_id |-> <<>>, error |-> <<"KeyError">>]
    ELSE [expense_id |-> page.expense_id, error |-> <<>>]

\* sum(1 for r in all_results if "error" not in r)
Successful(all_results) ==
    Len(SelectSeq(all_results, LAMBDA r : r.error = <<>>))

\* The keys of expense_groups, in insertion order; every group is saved to
\* one output file.
ExpenseGroups(all_results) ==
    LET RECURSIVE Keys(_, _)
        Keys(i, acc) ==
            IF i > Len(all_results) THEN acc
            ELSE LET r == all_results[i]
                 IN Keys(i + 1, IF r.error # <<>> \/ r.expense_id[1] \in Range(acc)
                                THEN acc ELSE Append(acc, r.expense_id[1]))
    IN Keys(1, <<>>)

InitJob ==
    /\ memory_percent = HighWaterMark
    /\ jobs = <<>>
    /\ task = <<>>
    /\ http_status = <<>>
    /\ stage_hist = <<>>
    /\ services = <<>>

\* jobs[job_id]["progress"]["current_stage"] = stage
SetStage(job, stage) == [job EXCEPT !.progress.current_stage = stage]

\* Mutant of FailJob: the error is recorded, the status is left as it is.
FailJobStatusNotSet(job, error_msg) ==
    [job EXCEPT !.completed_at = TRUE, !.error = <<error_msg>>]

\* Mutant of FailJob: the message of the exception is not recorded.
FailJobErrorNotSet(job, error_msg) ==
    [job EXCEPT !.status = "failed", !.completed_at = TRUE]

\* The except block of process_pdfs_background.
FailJob(job, error_msg) ==
    [job EXCEPT !.status = "failed", !.completed_at = TRUE, !.error = <<error_msg>>]

\* lifespan: the services are created in order.  When the credential catalog
\* cannot be read, ClassificationService(...) raises; the exception is printed
\* and the application serves with classification_service and
\* pdf_processing_service (assigned after it) still None.
Lifespan ==
    /\ services = <<>>
    /\ \E catalog_loaded \in BOOLEAN :
          services' = << [classification_service |-> catalog_loaded,
                          pdf_processing_service |-> catalog_loaded] >>
    /\ UNCHANGED <<memory_percent, jobs, task, http_status, stage_hist>>
    /\ UNCHANGED <<catVars, rateVars, genVars, aggVars, clsVars, pdfVars, stVars, fbVars>>

\* Time passes while process_pdfs_background runs: time.time() -
\* total_start_time grows by JobTickSeconds.
JobTick(j) ==
    /\ j \in DOMAIN task
    /\ task[j].pc \notin {"scheduled", "done"}
    /\ task[j].elapsed < MaxJobTicks * JobTickSeconds
    /\ task' = [task EXCEPT ![j].elapsed = @ + JobTickSeconds]
    /\ UNCHANGED <<memory_percent, jobs, http_status, stage_hist>>
    /\ UNCHANGED <<services, catVars, rateVars, genVars, aggVars, clsVars, pdfVars, stVars, fbVars>>

\* The environment: memory usage changes.
MemoryChange ==
    /\ \E m \in MemoryLevels \ {memory_percent} : memory_percent' = m
    /\ UNCHANGED <<jobs, task, http_status, stage_hist>>
    /\ UNCHANGED <<services, catVars, rateVars, genVars, aggVars, clsVars, pdfVars, stVars, fbVars>>

\* Mutant of ProcessImages: the job is created and its task scheduled before
\* the request is validated.
ProcessImagesCreatesFirst(n, all_pdf) ==
    LET free   == JobIds \ DOMAIN jobs
        job_id == CHOOSE j \in free : \A k \in free : j <= k
        job    == [status |-> "queued",
                   progress |-> [current |-> 0, total_pdfs |-> n,
                                 signin_pages_found |-> 0,
                                 signin_pages_processed |-> 0,
                                 current_stage |-> "queued"],
                   started_at |-> FALSE, completed_at |-> FALSE,
                   result |-> <<>>, error |-> <<>>]
        locals == [pc |-> "scheduled", nfiles |-> n, uploaded |-> 0, pdf_idx |-> 0,
                   all_signin_pages |-> <<>>, pending |-> {}, all_results |-> <<>>,
                   pdf_failed |-> 0, raised |-> <<>>, elapsed |-> 0]
    IN
    /\ services # <<>>
    /\ free # {}
    /\ jobs' = (job_id :> job) @@ jobs
    /\ task' = (job_id :> locals) @@ task
    /\ stage_hist' = (job_id :> <<"queued">>) @@ stage_hist
    /\ http_status' = IF MemoryLow THEN <<503>>
                      ELSE IF n = 0 \/ n > MAX_PDFS_PER_REQUEST \/ ~all_pdf THEN <<400>>
                      ELSE <<200>>
    /\ UNCHANGED memory_percent
    /\ UNCHANGED <<services, catVars, rateVars, genVars, aggVars, clsVars, pdfVars, stVars, fbVars>>

\* POST /process-images with n files, all of them PDFs or not.
ProcessImages(n, all_pdf) ==
    LET free   == JobIds \ DOMAIN jobs
        job_id == CHOOSE j \in free : \A k \in free : j <= k
        job    == [status |-> "queued",
                   progress |-> [current |-> 0, total_pdfs |-> n,
                                 signin_pages_found |-> 0,
                                 signin_pages_processed |-> 0,
                                 current_stage |-> "queued"],
                   started_at |-> FALSE, completed_at |-> FALSE,
                   result |-> <<>>, error |-> <<>>]
        locals == [pc |-> "scheduled", nfiles |-> n, uploaded |-> 0, pdf_idx |-> 0,
                   all_signin_pages |-> <<>>, pending |-> {}, all_results |-> <<>>,
                   pdf_failed |-> 0, raised |-> <<>>, elapsed |-> 0]
    IN
    /\ services # <<>>
    /\ IF MemoryLow
       THEN /\ http_status' = <<503>>
            /\ UNCHANGED <<jobs, task, stage_hist>>
       ELSE IF n = 0 \/ n > MAX_PDFS_PER_REQUEST \/ ~all_pdf
       THEN /\ http_status' = <<400>>
            /\ UNCHANGED <<jobs, task, stage_hist>>
       ELSE /\ free # {}
            /\ http_status' = <<200>>
            /\ jobs' = (job_id :> job) @@ jobs
            /\ task' = (job_id :> locals) @@ task
            /\ stage_hist' = (job_id :> <<"queued">>) @@ stage_hist
    /\ UNCHANGED memory_percent
    /\ UNCHANGED <<services, catVars, rateVars, genVars, aggVars, clsVars, pdfVars, stVars, fbVars>>

\* process_pdfs_background starts: status processing, stage initializing.
Begin(j) ==
    /\ j \in DOMAIN task
    /\ task[j].pc = "scheduled"
    /\ jobs' = [jobs EXCEPT ![j] = SetStage([@ EXCEPT !.status = "processing",
                                                      !.started_at = TRUE], "initializing")]
    /\ stage_hist' = [stage_hist EXCEPT ![j] = Append(@, "initializing")]
    /\ task' = [task EXCEPT ![j].pc = "init_memory"]
    /\ UNCHANGED <<memory_percent, http_status>>
    /\ UNCHANGED <<services, catVars, rateVars, genVars, aggVars, clsVars, pdfVars, stVars, fbVars>>

\* check_memory before the upload, then stage uploading.
InitCheckMemory(j) ==
    /\ j \in DOMAIN task
    /\ task[j].pc = "init_memory"
    /\ IF MemoryLow
       THEN /\ jobs' = [jobs EXCEPT ![j] = FailJob(@, MemoryLowError)]
            /\ task' = [task EXCEPT ![j].pc = "done",
                                    ![j].raised = <<MemoryLowError>>]
            /\ UNCHANGED stage_hist
       ELSE /\ jobs' = [jobs EXCEPT ![j] = SetStage(@, "uploading")]
            /\ stage_hist' = [stage_hist EXCEPT ![j] = Append(@, "uploading")]
            /\ task' = [task EXCEPT ![j].pc = "upload"]
    /\ UNCHANGED <<memory_percent, http_status>>
    /\ UNCHANGED <<services, catVars, rateVars, genVars, aggVars, clsVars, pdfVars, stVars, fbVars>>

\* One file is read and written to the temporary directory, or that raises.
UploadFile(j) ==
    /\ j \in DOMAIN task
    /\ task[j].pc = "upload"
    /\ task[j].uploaded < task[j].nfiles
    /\ \E ok \in BOOLEAN :
          IF ok
          THEN /\ task' = [task EXCEPT ![j].uploaded = @ + 1]
               /\ UNCHANGED jobs
          ELSE /\ jobs' = [jobs EXCEPT ![j] = FailJob(@, "OSError")]
               /\ task' = [task EXCEPT ![j].pc = "done",
                                       ![j].raised = <<"OSError">>]
    /\ UNCHANGED <<memory_percent, http_status, stage_hist>>
    /\ UNCHANGED <<services, catVars, rateVars, genVars, aggVars, clsVars, pdfVars, stVars, fbVars>>

\* All files are saved: stage extracting_pages.
BeginExtract(j) ==
    /\ j \in DOMAIN task
    /\ task[j].pc = "upload"
    /\ task[j].uploaded = task[j].nfiles
    /\ jobs' = [jobs EXCEPT ![j] = SetStage(@, "extracting_pages")]
    /\ stage_hist' = [stage_hist EXCEPT ![j] = Append(@, "extracting_pages")]
    /\ task' = [task EXCEPT ![j].pc = "extract"]
    /\ UNCHANGED <<memory_percent, http_status>>
    /\ UNCHANGED <<services, catVars, rateVars, genVars, aggVars, clsVars, pdfVars, stVars, fbVars>>

\* Mutant of AfterPdf: the loop over the PDFs is left after the first one.
AfterPdfLeavesLoop(pdf_idx, nfiles) == "extracted"

\* The position after PDF number pdf_idx: the memory check at the end of a
\* sub-batch, or the next PDF.
AfterPdf(pdf_idx, nfiles) ==
    IF pdf_idx % PDF_BATCH_SIZE = 0 \/ pdf_idx = nfiles THEN "batch_memory" ELSE "extract"

\* One PDF of the sub-batch: process_pdf raises (caught, next PDF), or returns
\* its sign-in pages and the progress is updated.  With pdf_processing_service
\* None the call raises AttributeError, which is caught like any other.
ProcessPdf(j) ==
    LET pdf_idx == task[j].pdf_idx + 1 IN
    /\ j \in DOMAIN task
    /\ task[j].pc = "extract"
    /\ task[j].pdf_idx < task[j].nfiles
    /\ \/ /\ task' = [task EXCEPT ![j].pdf_idx = pdf_idx,
                                  ![j].pdf_failed = @ + 1,
                                  ![j].pc = AfterPdf(pdf_idx, task[j].nfiles)]
          /\ UNCHANGED jobs
       \/ \E signin_pages \in {<<>>} \cup {<<pg>> : pg \in PageNames} :
            LET all == task[j].all_signin_pages \o signin_pages IN
            /\ services[1].pdf_processing_service
            /\ Len(all) <= MaxSigninPages
            /\ task' = [task EXCEPT ![j].pdf_idx = pdf_idx,
                                    ![j].all_signin_pages = all,
                                    ![j].pc = AfterPdf(pdf_idx, task[j].nfiles)]
            /\ jobs' = [jobs EXCEPT ![j].progress.current = pdf_idx,
                                    ![j].progress.signin_pages_found = Len(all)]
    /\ UNCHANGED <<memory_percent, http_status, stage_hist>>
    /\ UNCHANGED <<services, catVars, rateVars, genVars, aggVars, clsVars, pdfVars, stVars, fbVars>>

\* gc.collect(); check_memory() after each sub-batch.
BatchCheckMemory(j) ==
    /\ j \in DOMAIN task
    /\ task[j].pc = "batch_memory"
    /\ IF MemoryLow
       THEN /\ jobs' = [jobs EXCEPT ![j] = FailJob(@, MemoryLowError)]
            /\ task' = [task EXCEPT ![j].pc = "done",
                                    ![j].raised = <<MemoryLowError>>]
       ELSE /\ UNCHANGED jobs
            /\ task' = [task EXCEPT ![j].pc = IF task[j].pdf_idx < task[j].nfiles
                                              THEN "extract" ELSE "extracted"]
    /\ UNCHANGED <<memory_percent, http_status, stage_hist>>
    /\ UNCHANGED <<services, catVars, rateVars, genVars, aggVars, clsVars, pdfVars, stVars, fbVars>>

\* The result of a job that found no sign-in page.
EmptyResult(nfiles) ==
    [fields |-> {"total_processing_time_seconds", "pdfs_processed", "signin_pages_found",
                 "signin_pages_processed", "failed", "unique_expense_ids",
                 "output_files", "message"},
     pdfs_processed |-> nfiles, signin_pages_found |-> 0, signin_pages_processed |-> 0,
     failed |-> 0, unique_expense_ids |-> 0, output_files |-> <<>>]

\* Mutant of CompleteEmpty: the return is missing, and the task goes on into
\* process_signin_pages_batch with no page.
CompleteEmptyNoReturn(j) ==
    /\ j \in DOMAIN task
    /\ task[j].pc = "extracted"
    /\ task[j].all_signin_pages = <<>>
    /\ jobs' = [jobs EXCEPT ![j] = SetStage([@ EXCEPT !.status = "completed",
                                                      !.completed_at = TRUE,
                                                      !.result = <<EmptyResult(task[j].nfiles)>>],
                                            "completed")]
    /\ stage_hist' = [stage_hist EXCEPT ![j] = Append(@, "completed")]
    /\ task' = [task EXCEPT ![j].pc = "ocr"]
    /\ UNCHANGED <<memory_percent, http_status>>
    /\ UNCHANGED <<services, catVars, rateVars, genVars, aggVars, clsVars, pdfVars, stVars, fbVars>>

\* if not all_signin_pages: the job completes with no results and returns.
CompleteEmpty(j) ==
    /\ j \in DOMAIN task
    /\ task[j].pc = "extracted"
    /\ task[j].all_signin_pages = <<>>
    /\ jobs' = [jobs EXCEPT ![j] = SetStage([@ EXCEPT !.status = "completed",
                                                      !.completed_at = TRUE,
                                                      !.result = <<EmptyResult(task[j].nfiles)>>],
                                            "completed")]
    /\ stage_hist' = [stage_hist EXCEPT ![j] = Append(@, "completed")]
    /\ task' = [task EXCEPT ![j].pc = "done"]
    /\ UNCHANGED <<memory_percent, http_status>>
    /\ UNCHANGED <<services, catVars, rateVars, genVars, aggVars, clsVars, pdfVars, stVars, fbVars>>

\* Mutant of BeginOcr: current_stage is not set to ocr_processing.
BeginOcrStageNotSet(j) ==
    /\ j \in DOMAIN task
    /\ task[j].pc = "extracted"
    /\ task[j].all_signin_pages # <<>>
    /\ jobs' = [jobs EXCEPT ![j].progress.signin_pages_found = Len(task[j].all_signin_pages)]
    /\ task' = [task EXCEPT ![j].pc = "ocr", ![j].pending = DOMAIN task[j].all_signin_pages]
    /\ UNCHANGED <<memory_percent, http_status, stage_hist>>
    /\ UNCHANGED <<services, catVars, rateVars, genVars, aggVars, clsVars, pdfVars, stVars, fbVars>>

\* Stage ocr_processing; process_signin_pages_batch submits every page to
\* the pool at once.
BeginOcr(j) ==
    /\ j \in DOMAIN task
    /\ task[j].pc = "extracted"
    /\ task[j].all_signin_pages # <<>>
    /\ jobs' = [jobs EXCEPT ![j] =
                   SetStage([@ EXCEPT !.progress.signin_pages_found =
                                          Len(task[j].all_signin_pages)],
                            "ocr_processing")]
    /\ stage_hist' = [stage_hist EXCEPT ![j] = Append(@, "ocr_processing")]
    /\ task' = [task EXCEPT ![j].pc = "ocr", ![j].pending = DOMAIN task[j].all_signin_pages]
    /\ UNCHANGED <<memory_percent, http_status>>
    /\ UNCHANGED <<services, catVars, rateVars, genVars, aggVars, clsVars, pdfVars, stVars, fbVars>>

\* Mutant of OcrCollect: the result of a failed page is not appended.
OcrCollectDropsFailed(j) ==
    /\ j \in DOMAIN task
    /\ task[j].pc = "ocr"
    /\ \E idx \in task[j].pending :
          LET result == ProcessSingleImage(task[j].all_signin_pages[idx])
              all    == IF result.error # <<>> THEN task[j].all_results
                        ELSE Append(task[j].all_results, result) IN
          /\ task' = [task EXCEPT ![j].pending = @ \ {idx}, ![j].all_results = all]
          /\ jobs' = [jobs EXCEPT ![j].progress.signin_pages_processed = Len(all)]
    /\ UNCHANGED <<memory_percent, http_status, stage_hist>>
    /\ UNCHANGED <<services, catVars, rateVars, genVars, aggVars, clsVars, pdfVars, stVars, fbVars>>

\* The next future to complete, in any order: its result is appended and
\* progress.signin_pages_processed is set to the number completed.
OcrCollect(j) ==
    /\ j \in DOMAIN task
    /\ task[j].pc = "ocr"
    /\ \E idx \in task[j].pending :
          LET result == ProcessSingleImage(task[j].all_signin_pages[idx])
              all    == Append(task[j].all_results, result) IN
          /\ task' = [task EXCEPT ![j].pending = @ \ {idx}, ![j].all_results = all]
          /\ jobs' = [jobs EXCEPT ![j].progress.signin_pages_processed = Len(all)]
    /\ UNCHANGED <<memory_percent, http_status, stage_hist>>
    /\ UNCHANGED <<services, catVars, rateVars, genVars, aggVars, clsVars, pdfVars, stVars, fbVars>>

\* Mutant of OcrCheckMemory: the stage written after the OCR stage is
\* extracting_pages.
OcrCheckMemoryWrongStage(j) ==
    /\ j \in DOMAIN task
    /\ task[j].pc = "ocr"
    /\ task[j].pending = {}
    /\ IF MemoryLow
       THEN /\ jobs' = [jobs EXCEPT ![j] = FailJob(@, MemoryLowError)]
            /\ task' = [task EXCEPT ![j].pc = "done",
                                    ![j].raised = <<MemoryLowError>>]
            /\ UNCHANGED stage_hist
       ELSE /\ jobs' = [jobs EXCEPT ![j] = SetStage(@, "extracting_pages")]
            /\ stage_hist' = [stage_hist EXCEPT ![j] = Append(@, "extracting_pages")]
            /\ task' = [task EXCEPT ![j].pc = "save"]
    /\ UNCHANGED <<memory_percent, http_status>>
    /\ UNCHANGED <<services, catVars, rateVars, genVars, aggVars, clsVars, pdfVars, stVars, fbVars>>

\* check_memory at the end of process_signin_pages_batch, then stage
\* saving_results.
OcrCheckMemory(j) ==
    /\ j \in DOMAIN task
    /\ task[j].pc = "ocr"
    /\ task[j].pending = {}
    /\ IF MemoryLow
       THEN /\ jobs' = [jobs EXCEPT ![j] = FailJob(@, MemoryLowError)]
            /\ task' = [task EXCEPT ![j].pc = "done",
                                    ![j].raised = <<MemoryLowError>>]
            /\ UNCHANGED stage_hist
       ELSE /\ jobs' = [jobs EXCEPT ![j] = SetStage(@, "saving_results")]
            /\ stage_hist' = [stage_hist EXCEPT ![j] = Append(@, "saving_results")]
            /\ task' = [task EXCEPT ![j].pc = "save"]
    /\ UNCHANGED <<memory_percent, http_status>>
    /\ UNCHANGED <<services, catVars, rateVars, genVars, aggVars, clsVars, pdfVars, stVars, fbVars>>

\* The result of a job that processed sign-in pages.
FinalResult(nfiles, all_signin_pages, all_results) ==
    LET successful == Successful(all_results)
        saved_files == ExpenseGroups(all_results) IN
    [fields |-> {"total_processing_time_seconds", "total_processing_time_minutes",
                 "pdfs_processed", "signin_pages_found", "signin_pages_processed",
                 "failed", "unique_expense_ids", "output_files", "message"},
     pdfs_processed |-> nfiles, signin_pages_found |-> Len(all_signin_pages),
     signin_pages_processed |-> successful, failed |-> Len(all_results) - successful,
     unique_expense_ids |-> Len(saved_files), output_files |-> saved_files]

\* The results are grouped by expense id and saved, and the job completes;
\* save_results raising for a group fails the job.
Finalize(j) ==
    LET res == FinalResult(task[j].nfiles, task[j].all_signin_pages, task[j].all_results) IN
    /\ j \in DOMAIN task
    /\ task[j].pc = "save"
    /\ \E saved \in BOOLEAN :
          IF res.output_files # <<>> /\ ~saved
          THEN /\ jobs' = [jobs EXCEPT ![j] = FailJob(SetStage(@, "saving_results"), "OSError")]
               /\ task' = [task EXCEPT ![j].pc = "done", ![j].raised = <<"OSError">>]
               /\ UNCHANGED stage_hist
          ELSE /\ jobs' = [jobs EXCEPT ![j] =
                              SetStage([@ EXCEPT !.status = "completed",
                                                 !.completed_at = TRUE,
                                                 !.progress.signin_pages_processed =
                                                     res.signin_pages_processed,
                                                 !.result = <<res>>],
                                       "completed")]
               /\ stage_hist' = [stage_hist EXCEPT ![j] = Append(@, "completed")]
               /\ task' = [task EXCEPT ![j].pc = "done"]
    /\ UNCHANGED <<memory_percent, http_status>>
    /\ UNCHANGED <<services, catVars, rateVars, genVars, aggVars, clsVars, pdfVars, stVars, fbVars>>

(***************************************************************************)
(* classify_ocr_results called by one thread: the text is parsed, every    *)
(* record is classified against the scoped catalog, the field employee is  *)
(* overridden and duplicate names are removed.                             *)
(***************************************************************************)

MaxLines == 3                 \* lines of an extracted text

\* The company scopes a call runs under: None, companies 1 and 2, and a
\* company without catalog rows.
Scopes == {<<>>, <<1>>, <<2>>, <<3>>}

\* The lines of the extracted texts.
TextLines ==
    { Entry("Ann", "MD"), Entry("ann", "xyz"), Entry("Ann", "MDs"),
      Entry("Bob", "Rep"), Entry("Bob", "Sales Reps"), Entry("Bob", "Sales Rep"),
      Entry("O'Neil", "MD"), Junk }

\* The names a "Field Employee:" header line carries.
HeaderNames == {"Ann", "O'Neil"}

\* The texts: at most MaxLines lines, with or without a "Field Employee:"
\* header line.
Texts ==
    { [company_line |-> <<>>, field_employee |-> fe, lines |-> ls] :
        fe \in {<<>>} \cup {<<n>> : n \in HeaderNames},
        ls \in UNION {[1..n -> TextLines] : n \in 0..MaxLines} }

\* The row classify_ocr_results builds for a parsed record.
ClassifiedRow(rows, rec) ==
    LET res == ClassifyCredential(rows, rec.Credential_OCR) IN
    [Name |-> rec.Name, Credential_OCR |-> rec.Credential_OCR,
     Credential_Standardized |-> res.Credential_Standardized,
     Classification |-> res.Classification,
     Match_Score |-> res.Match_Score, Match_Method |-> res.Match_Method]

InitCls ==
    cls = [pc |-> "idle", mapping_df |-> ScopeTo(<<>>), text |-> NoText,
           todo |-> <<>>, classified |-> <<>>, result |-> <<>>]

\* classify_ocr_results(ocr_text) is called on a service scoped to a company:
\* the text is parsed; with no record an empty frame is returned at once.
ClsCall ==
    /\ cls.pc = "idle"
    /\ \E cid \in Scopes, text \in Texts :
          LET extracted_data == ParseOcrResults(text) IN
          cls' = [cls EXCEPT !.pc = IF extracted_data = <<>> THEN "done" ELSE "classify",
                             !.mapping_df = ScopeTo(cid),
                             !.text = text,
                             !.todo = extracted_data]
    /\ UNCHANGED <<catVars, rateVars, genVars, jobVars, aggVars, pdfVars, stVars, fbVars>>

\* One iteration of the loop over results_df: classify_credential.
ClsClassifyNext ==
    /\ cls.pc = "classify"
    /\ cls.todo # <<>>
    /\ IF cls.mapping_df.rows # <<>> /\ ~cls.mapping_df.normalized
       THEN cls' = [cls EXCEPT !.pc = "raised"]
       ELSE cls' = [cls EXCEPT !.todo = Tail(@),
                               !.classified =
                                   Append(@, ClassifiedRow(cls.mapping_df.rows, cls.todo[1]))]
    /\ UNCHANGED <<catVars, rateVars, genVars, jobVars, aggVars, pdfVars, stVars, fbVars>>

\* After the loop: the field employee override, then remove_duplicate_names.
ClsFinish ==
    LET fe  == ExtractFieldEmployeeName(cls.text)
        df1 == IF fe # <<>> THEN OverrideFieldEmployee(cls.classified, fe[1])
               ELSE cls.classified IN
    /\ cls.pc = "classify"
    /\ cls.todo = <<>>
    /\ cls' = [cls EXCEPT !.pc = "done", !.result = RemoveDuplicateNames(df1)]
    /\ UNCHANGED <<catVars, rateVars, genVars, jobVars, aggVars, pdfVars, stVars, fbVars>>

(***************************************************************************)
(* Aggregation: the results of the page workers are collected as they      *)
(* complete, grouped by expense id, concatenated, de-duplicated and saved, *)
(* one output file per expense id.                                         *)
(***************************************************************************)

MaxAggPages == 2              \* sign-in pages whose results are aggregated

\* classify_ocr_results as one thread computes it.
ClassifyOcrResults(rows, text) ==
    LET extracted_data == ParseOcrResults(text)
        results_df == [i \in DOMAIN extracted_data |-> ClassifiedRow(rows, extracted_data[i])]
        fe  == ExtractFieldEmployeeName(text)
        df1 == IF fe # <<>> THEN OverrideFieldEmployee(results_df, fe[1]) ELSE results_df
    IN IF extracted_data = <<>> THEN <<>> ELSE RemoveDuplicateNames(df1)

\* The texts of the pages that are aggregated.
PageTexts ==
    OcrTexts \cup { [company_line |-> <<1>>, field_employee |-> <<>>,
                     lines |-> <<Entry("ann", "xyz")>>] }

\* The documents the pages come from; the file name of a page carries the
\* name of its document.
AggDocs == {"D1", "D2"}

\* The dicts the page worker returns: the classified frame of a text under
\* the scope of its company with the expense id of the page, or an error.
PageResults ==
    { [filename |-> d, expense_id |-> <<e>>, error |-> <<>>,
       classified_results |-> ClassifyOcrResults(ScopeTo(<<ExtractCompanyId(text)>>).rows, text)] :
        d \in AggDocs, e \in {"E1", "E2"}, text \in PageTexts }
    \cup { [filename |-> d, expense_id |-> <<>>, error |-> <<"error">>,
            classified_results |-> <<>>] : d \in AggDocs }

\* Mutant of CombinedByExpense: the frames are grouped by the document of
\* the page.
CombinedByDocument(all_results) ==
    LET ok == SelectSeq(all_results, LAMBDA r : r.error = <<>>)
        RECURSIVE Concat(_, _)
        Concat(d, i) ==
            IF i > Len(ok) THEN <<>>
            ELSE (IF ok[i].filename = d THEN ok[i].classified_results ELSE <<>>)
                     \o Concat(d, i + 1)
    IN [d \in {ok[i].filename : i \in DOMAIN ok} |-> Concat(d, 1)]

\* expense_groups with every list of frames concatenated (pd.concat): expense
\* id -> the rows of its successful results, in the order of all_results.
CombinedByExpense(all_results) ==
    LET ok == SelectSeq(all_results, LAMBDA r : r.error = <<>>)
        RECURSIVE Concat(_, _)
        Concat(e, i) ==
            IF i > Len(ok) THEN <<>>
            ELSE (IF ok[i].expense_id[1] = e THEN ok[i].classified_results ELSE <<>>)
                     \o Concat(e, i + 1)
    IN [e \in {ok[i].expense_id[1] : i \in DOMAIN ok} |-> Concat(e, 1)]

\* The frame saved for every expense id: remove_duplicate_names of the
\* combined frame.
SavedFrames(all_results) ==
    LET combined == CombinedByExpense(all_results)
    IN [e \in DOMAIN combined |-> RemoveDuplicateNames(combined[e])]

InitAgg ==
    agg = [pc |-> "idle", pages |-> <<>>, pending |-> {}, all_results |-> <<>>,
           saved |-> <<>>, saved_files |-> <<>>]

\* All the page tasks are submitted to the pool; pages[i] is what the worker
\* of the i-th page, in source order, will return.
AggSubmit ==
    /\ agg.pc = "idle"
    /\ \E n \in 1..MaxAggPages :
          \E pages \in [1..n -> PageResults] :
              agg' = [agg EXCEPT !.pc = "collect", !.pages = pages, !.pending = 1..n]
    /\ UNCHANGED <<catVars, rateVars, genVars, jobVars, clsVars, pdfVars, stVars, fbVars>>

\* as_completed: the result of whichever worker finished next is appended to
\* all_results.
AggCollect ==
    /\ agg.pc = "collect"
    /\ \E idx \in agg.pending :
          agg' = [agg EXCEPT !.pending = @ \ {idx},
                             !.all_results = Append(@, agg.pages[idx])]
    /\ UNCHANGED <<catVars, rateVars, genVars, jobVars, clsVars, pdfVars, stVars, fbVars>>

\* The results are grouped by expense id, combined, de-duplicated and saved,
\* one file OCR_Results_Classified_{expense_id}.xlsx for every group.
AggSave ==
    /\ agg.pc = "collect"
    /\ agg.pending = {}
    /\ agg' = [agg EXCEPT !.pc = "done", !.saved = SavedFrames(agg.all_results),
                          !.saved_files = [i \in DOMAIN ExpenseGroups(agg.all_results) |->
                                              ExpenseGroups(agg.all_results)[i]]]
    /\ UNCHANGED <<catVars, rateVars, genVars, jobVars, clsVars, pdfVars, stVars, fbVars>>


(***************************************************************************)
(* PDFProcessingService.process_pdf: a document is split into page images, *)
(* every page is classified by the Tesseract heuristic, all pages are      *)
(* classified again by the batch LLM when the heuristic found no sign-in   *)
(* page, and the pages are saved under a name that carries their kind.  A  *)
(* document whose page images exist is not split again.  The caller        *)
(* (process_pdfs_background of main.py, main of process_batch.py) collects *)
(* the sign-in pages of all documents and then hands them to the page      *)
(* workers, which call the extraction client.                              *)
(***************************************************************************)

MaxPdfPages == 2              \* pages of a document
MaxPdfs == 2                  \* documents of a run of the caller
MaxPdfJobs == 2               \* runs of the caller over the same pages_dir
MaxImages == 1                \* image files in the data folder of process_batch.py
MAX_CLASSIFICATION_BATCH_SIZE == 10

\* The stems of the PDF file names; none is a prefix of another and none
\* holds a character that is special in a glob pattern.  One has the three
\* underscore-separated parts the case identifier is read from, one has not.
Docs == {"scan", "ID_HCP Spend_E1"}

\* The stems of the image files of the data folder of process_batch.py.
ImageNames == {"photo", "ID_HCP Lunch_E2_T"}

\* filename.split('_') over the names of the model.
SplitUnderscore(name) ==
    CASE name = "scan"              -> <<"scan">>
      [] name = "ID_HCP Spend_E1"   -> <<"ID", "HCP Spend", "E1">>
      [] name = "photo"             -> <<"photo">>
      [] name = "ID_HCP Lunch_E2_T" -> <<"ID", "HCP Lunch", "E2", "T">>

\* PDFProcessingService.extract_expense_id_from_filename: the third part of
\* the file name, or the stem of the file name when it has fewer.
PdfExtractExpenseId(stem) ==
    LET parts == SplitUnderscore(stem)
    IN IF Len(parts) >= 3 THEN parts[3] ELSE stem

\* The parts of the name of a page file: f"{stem}_page_{n}_{kind}.png" for a
\* page save_page_image wrote, the name of the file for an image of the data
\* folder.
FileNameParts(page) ==
    IF page.kind = "none"
    THEN SplitUnderscore(page.doc)
    ELSE SplitUnderscore(page.doc) \o <<"page", page.page, page.kind>>

\* DataExtractionService.extract_expense_id_from_filename: <<the third
\* part>>, or <<>> (None) when the name has fewer than three parts.
DataExtractExpenseId(parts) ==
    IF Len(parts) >= 3 THEN <<parts[3]>> ELSE <<>>

\* The image files of the data folder, each name once.
ImageFiles ==
    { q \in UNION {[1..n -> ImageNames] : n \in 0..MaxImages} :
        \A i, k \in DOMAIN q : i # k => q[i] # q[k] }

\* The pd.read_excel calls of one ClassificationService._load_mapping: the
\* file is read when self._full_mapping_df is None.
LoadMappingReads(full_mapping_df_loaded) == IF full_mapping_df_loaded THEN 0 ELSE 1

\* The pd.read_excel calls of the scoping of one page: main.py reloads the
\* shared instance, whose full table was loaded by its constructor;
\* process_batch.py constructs an instance for the page.
ScopingReads(entry) ==
    IF entry = "main" THEN LoadMappingReads(TRUE) ELSE LoadMappingReads(FALSE)
Kinds == {"signin", "dinein"}
Entries == {"main", "process_batch"}

\* pdf_files / pdf_paths: the documents of a run, each file name once.
DocQueues ==
    { q \in UNION {[1..n -> Docs] : n \in 1..MaxPdfs} :
        \A i, k \in DOMAIN q : i # k => q[i] # q[k] }

\* The orders in which the elements of a finite set S can be listed.
Orders(S) ==
    { q \in [1..Cardinality(S) -> S] : \A i, k \in DOMAIN q : i # k => q[i] # q[k] }

\* The page numbers among the entries of results.
PagesOf(results) == { results[i].page : i \in DOMAIN results }

\* Mutant of SortedByPage: the entries are left in the order they have.
SortedByPageUnsorted(results) == results

\* sorted(results, key=lambda x: x[0]): the entries in page order.
SortedByPage(results) ==
    LET n == Len(results)
        Rank(i) == Cardinality({k \in DOMAIN results : results[k].page < results[i].page}) + 1
    IN [r \in 1..n |-> results[CHOOSE i \in DOMAIN results : Rank(i) = r]]

\* The kind the entries of results give page p.
KindOf(results, p) ==
    LET i == CHOOSE k \in DOMAIN results : results[k].page = p IN results[i].kind

\* Path(self.pages_dir).glob(f"{pdf_filename}_page_*_{kind}.png")
GlobPages(pages_dir, doc, kind) ==
    { f \in pages_dir : f.doc = doc /\ f.kind = kind }

\* Mutant of CheckIfAlreadySplit: only the sign-in images are looked for.
CheckIfAlreadySplitSigninOnly(pages_dir, doc) ==
    LET signin_pages == GlobPages(pages_dir, doc, "signin")
        dinein_pages == GlobPages(pages_dir, doc, "dinein")
    IN IF signin_pages # {}
       THEN << [signin |-> signin_pages, dinein |-> dinein_pages] >>
       ELSE <<>>

\* PDFProcessingService.check_if_already_split: the existing page images of
\* the document as <<[signin, dinein]>>, or <<>> (None) when there is none.
CheckIfAlreadySplit(pages_dir, doc) ==
    LET signin_pages == GlobPages(pages_dir, doc, "signin")
        dinein_pages == GlobPages(pages_dir, doc, "dinein")
    IN IF signin_pages # {} \/ dinein_pages # {}
       THEN << [signin |-> signin_pages, dinein |-> dinein_pages] >>
       ELSE <<>>

\* The answers of the classification model to a batch of n pages: an error,
\* or a text whose comma-separated items (split(',') yields at least one)
\* name a kind, both kinds or none.
LlmItems == {"signin", "dinein", "signin or dinein", "unclear"}
LlmResponses(n) ==
    {[error |-> TRUE, items |-> <<>>]} \cup
    {[error |-> FALSE, items |-> q] : q \in UNION {[1..m -> LlmItems] : m \in 1..(n + 1)}}

\* kind in classification: the item holds the word.
ItemContains(item, kind) ==
    CASE item = "signin"           -> kind = "signin"
      [] item = "dinein"           -> kind = "dinein"
      [] item = "signin or dinein" -> TRUE
      [] OTHER                     -> FALSE

\* The loop body of classify_pages_batch over one item of the answer.
ValidClassification(item) ==
    IF ItemContains(item, "signin") THEN "signin"
    ELSE IF ItemContains(item, "dinein") THEN "dinein"
    ELSE "dinein"

\* while len(valid_classifications) < batch_size: append('dinein')
RECURSIVE PadDinein(_, _)
PadDinein(valid_classifications, batch_size) ==
    IF Len(valid_classifications) < batch_size
    THEN PadDinein(Append(valid_classifications, "dinein"), batch_size)
    ELSE valid_classifications

\* Mutant of ClassifyPagesBatch: the list is not padded up to the size of
\* the batch.
ClassifyPagesBatchNoPad(response, batch_size) ==
    IF response.error
    THEN [i \in 1..batch_size |-> "dinein"]
    ELSE LET valid_classifications ==
                 [i \in DOMAIN response.items |-> ValidClassification(response.items[i])]
         IN SubSeq(valid_classifications, 1,
                   IF Len(valid_classifications) < batch_size
                   THEN Len(valid_classifications) ELSE batch_size)

\* PDFProcessingService.classify_pages_batch: the items of the answer are
\* mapped to kinds, the list is padded with dinein up to the size of the
\* batch and cut to it; an error in the call or in the parsing gives dinein
\* for every page.
ClassifyPagesBatch(response, batch_size) ==
    IF response.error
    THEN [i \in 1..batch_size |-> "dinein"]
    ELSE LET valid_classifications ==
                 [i \in DOMAIN response.items |-> ValidClassification(response.items[i])]
         IN SubSeq(PadDinein(valid_classifications, batch_size), 1, batch_size)

\* Mutant of NumBatches: the division rounds down.
NumBatchesFloor(n, batch_size) == n \div batch_size

\* num_batches = (len(sorted_results) + batch_size - 1) // batch_size
NumBatches(n, batch_size) == (n + batch_size - 1) \div batch_size

\* sorted_results[start_idx:end_idx] of batch batch_idx (counted from 0).
BatchResults(sorted_results, batch_idx, batch_size) ==
    LET start_idx == batch_idx * batch_size
        end_idx   == IF start_idx + batch_size < Len(sorted_results)
                     THEN start_idx + batch_size
                     ELSE Len(sorted_results)
    IN SubSeq(sorted_results, start_idx + 1, end_idx)

\* Mutant of FallbackNeeded: the fallback is entered when some page is not a
\* sign-in page.
FallbackNeededAnyDinein(tesseract_results) ==
    \E i \in DOMAIN tesseract_results : tesseract_results[i].kind # "signin"

\* if signin_count == 0: the heuristic found no sign-in page.
FallbackNeeded(tesseract_results) ==
    \A i \in DOMAIN tesseract_results : tesseract_results[i].kind # "signin"

\* The arguments OCR_SIGNIN_PROMPT.format is given by the page worker of
\* main.py and by the one of process_batch.py.
FormatArgsOf(entry) ==
    IF entry = "main" THEN FormatArgs ELSE {"HCPs", "credential_hints"}

\* Whether the page worker reaches gemini_client.process_ocr: the steps
\* before the call succeed and the prompt can be formatted.
ReachesProcessOcr(entry, pre_ok) ==
    pre_ok /\ PromptFields \subseteq FormatArgsOf(entry)

NoCall ==
    [doc |-> "", npages |-> 0, pending |-> {}, tesseract_results |-> <<>>,
     fallback |-> FALSE, batch_idx |-> 0, llm_answers |-> <<>>, llm_calls |-> 0,
     final_results |-> <<>>, saved |-> <<>>]

InitPdf ==
    pdf = [pc |-> "idle", job |-> 0, entry |-> "main", pages_dir |-> {},
           queue |-> <<>>, image_files |-> <<>>, call |-> NoCall, runs |-> <<>>,
           earlier |-> <<>>, all_signin_pages |-> <<>>, ocr_pending |-> {},
           sent |-> <<>>, no_id |-> {}, reads |-> 0, interrupted |-> <<>>]

\* The record of a process_pdf call that has ended.
Run(outcome, reused, rendered, signin, dinein) ==
    [job |-> pdf.job, doc |-> Head(pdf.queue), outcome |-> outcome, reused |-> reused,
     rendered |-> rendered, expense_id |-> PdfExtractExpenseId(Head(pdf.queue)),
     tesseract_results |-> SortedByPage(pdf.call.tesseract_results),
     fallback |-> pdf.call.fallback, llm_answers |-> pdf.call.llm_answers,
     llm_calls |-> pdf.call.llm_calls, signin |-> signin, dinein |-> dinein,
     signin_paths |-> <<>>, dinein_paths |-> <<>>]

\* History: what the process_pdf calls of the runs before this one returned
\* last for each document, as document -> [signin, dinein].
Earlier(earlier, runs) ==
    LET returned == {i \in DOMAIN runs : runs[i].outcome = "returned"}
        docs     == {runs[i].doc : i \in returned}
        Last(d)  == CHOOSE i \in returned :
                       /\ runs[i].doc = d
                       /\ \A k \in returned : runs[k].doc = d => k <= i
    IN [d \in docs \cup DOMAIN earlier |->
           IF d \in docs
           THEN [signin |-> runs[Last(d)].signin, dinein |-> runs[Last(d)].dinein]
           ELSE earlier[d]]

\* History: the documents of which a process_pdf call of the runs before
\* this one rendered the pages and raised after it had saved some of them,
\* with the number of pages it rendered.
Interrupted(interrupted, runs) ==
    LET cut  == {i \in DOMAIN runs : /\ runs[i].outcome = "raised"
                                      /\ runs[i].rendered = 1
                                      /\ runs[i].signin \cup runs[i].dinein # {}}
        docs == {runs[i].doc : i \in cut}
    IN [d \in docs \cup DOMAIN interrupted |->
           IF d \in docs
           THEN Len(runs[CHOOSE i \in cut : runs[i].doc = d].tesseract_results)
           ELSE interrupted[d]]

\* The number of times page is in the bag sent, and the bag with one more.
TimesSent(sent, page) == IF page \in DOMAIN sent THEN sent[page] ELSE 0
SendPage(sent, page) ==
    [p \in DOMAIN sent \cup {page} |-> IF p = page THEN TimesSent(sent, p) + 1 ELSE sent[p]]

\* A run of the caller starts over the documents of its input; pages_dir
\* keeps the images of the earlier runs.  The process of the run has built
\* its ClassificationService once: at the start of the server for main.py,
\* at the start of the script for process_batch.py.
PdfJobStart ==
    /\ pdf.pc \in {"idle", "done"}
    /\ pdf.job < MaxPdfJobs
    /\ \E entry \in Entries, q \in DocQueues, image_files \in ImageFiles :
          /\ entry = "main" => image_files = <<>>
          /\ pdf' = [pdf EXCEPT !.pc = "split", !.job = @ + 1, !.entry = entry,
                                !.queue = q, !.image_files = image_files,
                                !.call = NoCall,
                                !.earlier = Earlier(pdf.earlier, pdf.runs),
                                !.interrupted = Interrupted(pdf.interrupted, pdf.runs),
                                !.runs = <<>>,
                                !.all_signin_pages = <<>>, !.ocr_pending = {},
                                !.sent = <<>>, !.no_id = {},
                                !.reads = LoadMappingReads(FALSE)]
    /\ UNCHANGED <<catVars, rateVars, genVars, jobVars, aggVars, clsVars, stVars, fbVars>>

\* process_pdf(pdf_path) up to the classification: the existing page images
\* are returned when there are some; otherwise pdf_to_images renders the
\* pages or raises, and the caller goes on with the next document.
ProcessPdfBegin ==
    LET doc      == Head(pdf.queue)
        existing == CheckIfAlreadySplit(pdf.pages_dir, doc)
    IN
    /\ pdf.pc = "split"
    /\ pdf.queue # <<>>
    /\ IF existing # <<>>
       THEN \E signin_pages \in Orders(existing[1].signin) :
               pdf' = [pdf EXCEPT
                         !.runs = Append(@, Run("returned", TRUE, 0,
                                                existing[1].signin, existing[1].dinein)),
                         !.all_signin_pages = @ \o signin_pages,
                         !.queue = Tail(@)]
       ELSE \/ pdf' = [pdf EXCEPT !.runs = Append(@, Run("raised", FALSE, 0, {}, {})),
                                  !.queue = Tail(@)]
            \/ \E npages \in 1..MaxPdfPages :
                  pdf' = [pdf EXCEPT !.pc = "tesseract",
                                     !.call = [NoCall EXCEPT !.doc = doc,
                                                             !.npages = npages,
                                                             !.pending = 1..npages]]
    /\ UNCHANGED <<catVars, rateVars, genVars, jobVars, aggVars, clsVars, stVars, fbVars>>

\* The next future of the Tesseract pool to complete: its page is signin
\* when the three keywords are read on it, dinein otherwise or on an error.
TesseractResult ==
    /\ pdf.pc = "tesseract"
    /\ \E p \in pdf.call.pending, kind \in Kinds :
          pdf' = [pdf EXCEPT !.call.pending = @ \ {p},
                             !.call.tesseract_results =
                                 Append(@, [page |-> p, kind |-> kind])]
    /\ UNCHANGED <<catVars, rateVars, genVars, jobVars, aggVars, clsVars, stVars, fbVars>>

\* After the pool: the LLM fallback when no page is signin, the Tesseract
\* results otherwise.
ChooseStage ==
    /\ pdf.pc = "tesseract"
    /\ pdf.call.pending = {}
    /\ IF FallbackNeeded(pdf.call.tesseract_results)
       THEN pdf' = [pdf EXCEPT !.pc = "fallback", !.call.fallback = TRUE]
       ELSE pdf' = [pdf EXCEPT !.pc = "save",
                               !.call.final_results = pdf.call.tesseract_results]
    /\ UNCHANGED <<catVars, rateVars, genVars, jobVars, aggVars, clsVars, stVars, fbVars>>

\* One batch of the fallback: the pages start_idx..end_idx of the results
\* sorted by page are classified in one call of the model.
LlmBatch ==
    LET sorted_results == SortedByPage(pdf.call.tesseract_results)
        num_batches    == NumBatches(Len(sorted_results), MAX_CLASSIFICATION_BATCH_SIZE)
        batch_results  == BatchResults(sorted_results, pdf.call.batch_idx,
                                       MAX_CLASSIFICATION_BATCH_SIZE)
        n              == Len(batch_results)
    IN
    /\ pdf.pc = "fallback"
    /\ pdf.call.batch_idx < num_batches
    /\ \E response \in LlmResponses(n) :
          LET batch_classifications == ClassifyPagesBatch(response, n)
              answers == [i \in 1..n |-> [page |-> batch_results[i].page,
                                          kind |-> batch_classifications[i]]]
          IN pdf' = [pdf EXCEPT !.call.batch_idx = @ + 1,
                                !.call.llm_calls = @ + 1,
                                !.call.llm_answers = @ \o answers,
                                !.call.final_results = @ \o answers,
                                !.pc = IF pdf.call.batch_idx + 1 < num_batches
                                       THEN "fallback" ELSE "save"]
    /\ UNCHANGED <<catVars, rateVars, genVars, jobVars, aggVars, clsVars, stVars, fbVars>>

\* save_page_image for the next page in page order: the image is written
\* under the name of its kind, or the write raises and process_pdf with it.
SavePage ==
    LET to_save == SortedByPage(pdf.call.final_results)
        k       == Len(pdf.call.saved) + 1
        file    == [doc |-> pdf.call.doc, page |-> to_save[k].page, kind |-> to_save[k].kind]
        Of(kind) == { pdf.call.saved[i] : i \in {m \in DOMAIN pdf.call.saved :
                                                   pdf.call.saved[m].kind = kind} }
    IN
    /\ pdf.pc = "save"
    /\ k <= Len(to_save)
    /\ \/ pdf' = [pdf EXCEPT !.pages_dir = @ \cup {file},
                             !.call.saved = Append(@, file)]
       \/ pdf' = [pdf EXCEPT !.runs = Append(@, Run("raised", FALSE, 1,
                                                    Of("signin"), Of("dinein"))),
                             !.queue = Tail(@), !.pc = "split", !.call = NoCall]
    /\ UNCHANGED <<catVars, rateVars, genVars, jobVars, aggVars, clsVars, stVars, fbVars>>

\* process_pdf returns its results and the caller extends all_signin_pages
\* with results['signin'].
ProcessPdfReturn ==
    LET saved    == pdf.call.saved
        signin   == SelectSeq(saved, LAMBDA f : f.kind = "signin")
        dinein   == SelectSeq(saved, LAMBDA f : f.kind = "dinein")
    IN
    /\ pdf.pc = "save"
    /\ Len(saved) = Len(pdf.call.final_results)
    /\ pdf' = [pdf EXCEPT !.runs = Append(@, [Run("returned", FALSE, 1,
                                                  Range(signin), Range(dinein))
                                              EXCEPT !.signin_paths = signin,
                                                     !.dinein_paths = dinein]),
                          !.all_signin_pages = @ \o signin,
                          !.queue = Tail(@), !.pc = "split", !.call = NoCall]
    /\ UNCHANGED <<catVars, rateVars, genVars, jobVars, aggVars, clsVars, stVars, fbVars>>

\* All documents are done.  process_batch.py adds every image file of the
\* data folder to all_signin_pages as it is (Part 1B); main.py has none.
AddImages ==
    /\ pdf.pc = "split"
    /\ pdf.queue = <<>>
    /\ pdf' = [pdf EXCEPT !.pc = "submit",
                          !.all_signin_pages =
                              @ \o [i \in DOMAIN pdf.image_files |->
                                       [doc |-> pdf.image_files[i], page |-> i,
                                        kind |-> "none"]]]
    /\ UNCHANGED <<catVars, rateVars, genVars, jobVars, aggVars, clsVars, stVars, fbVars>>

\* With no sign-in page the run ends; otherwise one task per page of
\* all_signin_pages is submitted to one ThreadPoolExecutor.
SubmitAll ==
    /\ pdf.pc = "submit"
    /\ IF pdf.all_signin_pages = <<>>
       THEN pdf' = [pdf EXCEPT !.pc = "done"]
       ELSE pdf' = [pdf EXCEPT !.pc = "ocr", !.ocr_pending = DOMAIN pdf.all_signin_pages]
    /\ UNCHANGED <<catVars, rateVars, genVars, jobVars, aggVars, clsVars, stVars, fbVars>>

\* A page worker runs: it raises when no case identifier is read from the
\* name of the file; otherwise the page is passed to
\* gemini_client.process_ocr when the worker gets that far, and when the call
\* returns the catalog is scoped to the company of the page.
PageOcr ==
    /\ pdf.pc = "ocr"
    /\ \E idx \in pdf.ocr_pending, pre_ok \in BOOLEAN, ocr_ok \in BOOLEAN :
          LET page       == pdf.all_signin_pages[idx]
              expense_id == DataExtractExpenseId(FileNameParts(page))
              reaches    == expense_id # <<>> /\ ReachesProcessOcr(pdf.entry, pre_ok)
          IN pdf' = [pdf EXCEPT
                       !.ocr_pending = @ \ {idx},
                       !.no_id = IF expense_id = <<>> THEN @ \cup {page} ELSE @,
                       !.sent = IF reaches THEN SendPage(@, page) ELSE @,
                       !.reads = IF reaches /\ ocr_ok
                                 THEN @ + ScopingReads(pdf.entry) ELSE @]
    /\ UNCHANGED <<catVars, rateVars, genVars, jobVars, aggVars, clsVars, stVars, fbVars>>

\* Every task has completed.
OcrDone ==
    /\ pdf.pc = "ocr"
    /\ pdf.ocr_pending = {}
    /\ pdf' = [pdf EXCEPT !.pc = "done"]
    /\ UNCHANGED <<catVars, rateVars, genVars, jobVars, aggVars, clsVars, stVars, fbVars>>

(***************************************************************************)
(* The LLM fallback of process_pdf (lines 423-470) over documents of more  *)
(* pages than one batch holds: the Tesseract results, which arrive in the  *)
(* order of completion, are sorted by page and cut into batches of         *)
(* MAX_CLASSIFICATION_BATCH_SIZE pages, and classify_pages_batch is called *)
(* once per batch.                                                         *)
(***************************************************************************)

MaxFallbackPages == 21        \* pages of a document in the fallback

\* Orders in which the futures of the Tesseract pool complete: page order,
\* the reverse, and the odd pages before the even ones.
CompletionOrders(n) ==
    LET odd == (n + 1) \div 2 IN
    { [i \in 1..n |-> i],
      [i \in 1..n |-> n + 1 - i],
      [i \in 1..n |-> IF i <= odd THEN 2 * i - 1 ELSE 2 * (i - odd)] }

\* Answers of the model to a batch of n pages: an error, or a list of n - 1,
\* n or n + 1 items (at least one) that repeats a pattern of two items.
FbResponses(n) ==
    {[error |-> TRUE, items |-> <<>>]} \cup
    {[error |-> FALSE, items |-> [i \in 1..m |-> pat[2 - (i % 2)]]] :
        m \in {k \in {n - 1, n, n + 1} : k >= 1}, pat \in [1..2 -> LlmItems]}

NoBatchCall == [images |-> <<>>, response |-> [error |-> TRUE, items |-> <<>>],
                returned |-> <<>>]

InitFb ==
    fb = [pc |-> "idle", npages |-> 0, tesseract_results |-> <<>>,
          sorted_results |-> <<>>, batch_idx |-> 0,
          calls |-> <<>>, last |-> NoBatchCall, final_results |-> <<>>]

\* process_pdf has rendered npages pages and the heuristic, whose futures
\* completed in some order, found no sign-in page: the results are sorted by
\* page index (line 429).
FbStart ==
    /\ fb.pc = "idle"
    /\ \E npages \in 1..MaxFallbackPages :
         \E order \in CompletionOrders(npages) :
            LET tesseract_results == [i \in 1..npages |->
                                         [page |-> order[i], kind |-> "dinein"]]
            IN /\ FallbackNeeded(tesseract_results)
               /\ fb' = [pc |-> "fallback", npages |-> npages,
                         tesseract_results |-> tesseract_results,
                         sorted_results |-> SortedByPage(tesseract_results),
                         batch_idx |-> 0,
                         calls |-> <<>>, last |-> NoBatchCall, final_results |-> <<>>]
    /\ UNCHANGED <<catVars, rateVars, genVars, jobVars, aggVars, clsVars, pdfVars, stVars>>

\* One turn of the loop over range(num_batches): one call of
\* classify_pages_batch with the pages of the batch.
FbBatch ==
    LET sorted_results == fb.sorted_results
        num_batches    == NumBatches(Len(sorted_results), MAX_CLASSIFICATION_BATCH_SIZE)
        batch_results  == BatchResults(sorted_results, fb.batch_idx,
                                       MAX_CLASSIFICATION_BATCH_SIZE)
        batch_images   == [i \in DOMAIN batch_results |-> batch_results[i].page]
    IN
    /\ fb.pc = "fallback"
    /\ fb.batch_idx < num_batches
    /\ \E response \in FbResponses(Len(batch_images)) :
          LET batch_classifications == ClassifyPagesBatch(response, Len(batch_images))
          IN fb' = [fb EXCEPT
                      !.batch_idx = @ + 1,
                      !.calls = Append(@, batch_images),
                      !.last = [images |-> batch_images, response |-> response,
                                returned |-> batch_classifications],
                      !.final_results =
                          @ \o [i \in DOMAIN batch_classifications |->
                                   [page |-> batch_results[i].page,
                                    kind |-> batch_classifications[i]]]]
    /\ UNCHANGED <<catVars, rateVars, genVars, jobVars, aggVars, clsVars, pdfVars, stVars>>

\* The loop has ended: process_pdf goes on to save final_results.
FbEnd ==
    /\ fb.pc = "fallback"
    /\ fb.batch_idx >= NumBatches(Len(fb.sorted_results), MAX_CLASSIFICATION_BATCH_SIZE)
    /\ fb' = [fb EXCEPT !.pc = "done"]
    /\ UNCHANGED <<catVars, rateVars, genVars, jobVars, aggVars, clsVars, pdfVars, stVars>>

(***************************************************************************)
(* State filtering (process_batch.py): the page worker builds its own      *)
(* ClassificationService for the company of the page, asks the credential  *)
(* database which HCP credentials are valid federally or in the state of   *)
(* the venue, and calls filter_by_state_credentials with them; any failure *)
(* of that block is printed and the page is classified all the same.       *)
(***************************************************************************)

MaxStateRows == 3             \* rows of tbl_State_HCPCredential

\* The CredentialID of a row of the mapping file.
CredentialID(r) ==
    CASE r.company_id = 1 /\ r.Credential = "MD"        -> 1
      [] r.company_id = 1 /\ r.Credential = "RN"        -> 2
      [] r.company_id = 2 /\ r.Credential = "MD"        -> 3
      [] r.company_id = 2 /\ r.Credential = "Rep"       -> 4
      [] r.company_id = 2 /\ r.Credential = "Sales Rep" -> 5

\* str.lower() and SQL LOWER() over the names of the model; the comparison
\* a.classification = 'hcp' of the query is the case-insensitive one of the
\* database's default collation.
Lower(s) ==
    CASE s = "Pennsylvania" -> "pennsylvania"
      [] s = "Texas"        -> "texas"
      [] s = "Federal"      -> "federal"
      [] s = "HCP"          -> "hcp"
      [] s = "Non-HCP"      -> "non-hcp"
      [] s = "Field Employee" -> "field employee"
      [] OTHER              -> s

\* The values of get_venue_state: None, or the state of the venue.
VenueStates == {<<>>, <<"Pennsylvania">>, <<"Texas">>}

\* The contents tbl_State_HCPCredential can have: which credential is valid
\* where.
StateTables ==
    { t \in SUBSET [Credentialid : {1, 2, 3}, state : {"Federal", "pennsylvania"}] :
        Cardinality(t) <= MaxStateRows }

\* The methods ClassificationService defines.
ClassificationServiceMethods ==
    {"_load_mapping", "reload_with_company_id", "extract_field_employee_name",
     "parse_ocr_results", "classify_credential", "_fuzzy_match_credential",
     "classify_ocr_results", "_override_field_employee", "remove_duplicate_names",
     "save_results"}

\* CredentialService.get_state_specific_credential_ids: the ids of the HCP
\* credentials of the company that tbl_State_HCPCredential lists under
\* 'federal' or under the state of the venue.
GetStateSpecificCredentialIds(table, venue_state, cid) ==
    { CredentialID(FullCatalog[i]) : i \in
        { k \in DOMAIN FullCatalog :
            /\ \E b \in table :
                  /\ b.Credentialid = CredentialID(FullCatalog[k])
                  /\ Lower(b.state) \in {"federal", Lower(venue_state)}
            /\ Lower(FullCatalog[k].Classification) = "hcp"
            /\ FullCatalog[k].company_id = cid } }

\* The credentials a page is classified for.
StateCredentials == {"MD", "rn", "Rep", "xyz"}

IdleSt ==
    [pc |-> "idle", company_id |-> 1, venue_state |-> <<>>, table |-> {},
     db_ok |-> TRUE, valid_credential_ids |-> {}, rows |-> <<>>,
     warning |-> <<>>, result |-> <<>>]

InitSt == stf = IdleSt

\* ClassificationService(mapping_file, company_id=company_id) for the page,
\* and data_service.get_venue_state(expense_id).
StCall ==
    /\ stf.pc = "idle"
    /\ \E cid \in {1, 2}, venue_state \in VenueStates, table \in StateTables,
          db_ok \in BOOLEAN :
          stf' = [stf EXCEPT !.pc = IF venue_state = <<>> THEN "classify" ELSE "query",
                             !.company_id = cid, !.venue_state = venue_state,
                             !.table = table, !.db_ok = db_ok,
                             !.rows = ScopeTo(<<cid>>).rows,
                             !.warning = IF venue_state = <<>>
                                         THEN <<"No venue state found">> ELSE <<>>]
    /\ UNCHANGED <<catVars, rateVars, genVars, jobVars, aggVars, clsVars, pdfVars, fbVars>>

\* with CredentialService() as cred_service: get_state_specific_credential_ids;
\* a database error is caught by the except of the block.
StQuery ==
    /\ stf.pc = "query"
    /\ IF stf.db_ok
       THEN stf' = [stf EXCEPT !.pc = "filter",
                               !.valid_credential_ids =
                                   GetStateSpecificCredentialIds(stf.table,
                                       stf.venue_state[1], stf.company_id)]
       ELSE stf' = [stf EXCEPT !.pc = "classify",
                               !.warning = <<"State filtering failed">>]
    /\ UNCHANGED <<catVars, rateVars, genVars, jobVars, aggVars, clsVars, pdfVars, fbVars>>

\* Mutant of StFilter: the filter is applied to an empty list of valid
\* credentials as well, which leaves no HCP row.
StFilterEmptyApplied ==
    /\ stf.pc = "filter"
    /\ IF stf.valid_credential_ids # {}
       THEN stf' = [stf EXCEPT !.pc = "classify",
                               !.warning = <<"State filtering failed">>]
       ELSE stf' = [stf EXCEPT !.pc = "classify",
                               !.rows = SelectSeq(@, LAMBDA r : r.Classification # "HCP"),
                               !.warning = <<"No valid credentials for state">>]
    /\ UNCHANGED <<catVars, rateVars, genVars, jobVars, aggVars, clsVars, pdfVars, fbVars>>

\* if valid_credential_ids: page_classification_service.
\* filter_by_state_credentials(...), an attribute ClassificationService does
\* not have: the AttributeError is caught by the except of the block and
\* printed.  With no valid credential a warning is printed.
StFilter ==
    /\ stf.pc = "filter"
    /\ IF stf.valid_credential_ids # {}
       THEN IF "filter_by_state_credentials" \in ClassificationServiceMethods
            THEN FALSE
            ELSE stf' = [stf EXCEPT !.pc = "classify",
                                    !.warning = <<"State filtering failed">>]
       ELSE stf' = [stf EXCEPT !.pc = "classify",
                               !.warning = <<"No valid credentials for state">>]
    /\ UNCHANGED <<catVars, rateVars, genVars, jobVars, aggVars, clsVars, pdfVars, fbVars>>

\* page_classification_service.classify_ocr_results: every credential of the
\* page is classified against the rows of the service.
StClassify ==
    /\ stf.pc = "classify"
    /\ stf' = [stf EXCEPT !.pc = "done",
                          !.result = [c \in StateCredentials |->
                                         ClassifyCredential(stf.rows, c)]]
    /\ UNCHANGED <<catVars, rateVars, genVars, jobVars, aggVars, clsVars, pdfVars, fbVars>>

Init ==
    /\ InitCat /\ InitRate /\ InitGen /\ InitJob /\ InitAgg /\ InitCls /\ InitPdf
    /\ InitSt /\ InitFb

NextCatalog ==
    \E p \in Pages :
        \/ WorkerStart(p)
        \/ OcrReturn(p)
        \/ SetCompany(p)
        \/ LoadMapping(p)
        \/ Normalize(p)
        \/ ClassifyNext(p)
        \/ ClassifyFinish(p)

SpecCatalog == Init /\ [][NextCatalog]_vars

NextRate ==
    \/ \E t \in Threads :
        \/ Enter(t)
        \/ Wake(t)
        \/ Return(t)
        \/ Raise(t)
    \/ Tick

SpecRate == Init /\ [][NextRate]_vars

NextGen ==
    \/ GenCall
    \/ ApiAnswer
    \/ GenExcept

SpecGen == Init /\ [][NextGen]_vars

NextJob ==
    \/ Lifespan
    \/ MemoryChange
    \/ \E n \in FileCounts, all_pdf \in BOOLEAN : ProcessImages(n, all_pdf)
    \/ \E j \in JobIds :
        \/ Begin(j)
        \/ InitCheckMemory(j)
        \/ UploadFile(j)
        \/ BeginExtract(j)
        \/ ProcessPdf(j)
        \/ BatchCheckMemory(j)
        \/ CompleteEmpty(j)
        \/ BeginOcr(j)
        \/ OcrCollect(j)
        \/ OcrCheckMemory(j)
        \/ Finalize(j)
        \/ JobTick(j)

SpecJob == Init /\ [][NextJob]_vars

NextClassify ==
    \/ ClsCall
    \/ ClsClassifyNext
    \/ ClsFinish

SpecClassify == Init /\ [][NextClassify]_vars

NextPdf ==
    \/ PdfJobStart
    \/ ProcessPdfBegin
    \/ TesseractResult
    \/ ChooseStage
    \/ LlmBatch
    \/ SavePage
    \/ ProcessPdfReturn
    \/ AddImages
    \/ SubmitAll
    \/ PageOcr
    \/ OcrDone

SpecPdf == Init /\ [][NextPdf]_vars

NextFallback ==
    \/ FbStart
    \/ FbBatch
    \/ FbEnd

SpecFallback == Init /\ [][NextFallback]_vars

NextState ==
    \/ StCall
    \/ StQuery
    \/ StFilter
    \/ StClassify

SpecState == Init /\ [][NextState]_vars

NextSave ==
    \/ AggSubmit
    \/ AggCollect
    \/ AggSave

SpecSave == Init /\ [][NextSave]_vars

C2_MinimumInterval ==
    \A i, k \in DOMAIN call_starts :
        i < k => call_starts[k] - call_starts[i] >= min_interval

IsRateLimited(e) == ~e.ok /\ ("rate" \in e.words \/ "quota" \in e.words)
IsTimeout(e) == ~e.ok /\ "timeout" \in e.words /\ "rate" \notin e.words /\ "quota" \notin e.words

\* C3: a rate-limit answer is retried exactly once: when the second attempt
\* is rate-limited too, the call ends with an error after those two attempts.
C3_RateLimitRetriedOnce ==
    (Len(gen.log) >= 2 /\ IsRateLimited(gen.log[1]) /\ IsRateLimited(gen.log[2]))
        => (Len(gen.log) = 2 /\ gen.pc \in {"except", "raised"})

\* C4: a timeout of a call with an image is retried once with the downscaled
\* image: when the retry times out too, the timeout propagates, so at most
\* two attempts are made.
C4_TimeoutRetriedOnce ==
    (Len(gen.log) >= 2 /\ gen.log[1].image # <<>>
        /\ IsTimeout(gen.log[1]) /\ IsTimeout(gen.log[2]))
        => (Len(gen.log) = 2 /\ gen.pc \in {"except", "raised"})

\* A failure that is neither a rate-limit error nor a timeout with an image.
NotRetried(e) ==
    /\ ~e.ok
    /\ "rate" \notin e.words /\ "quota" \notin e.words
    /\ "timeout" \in e.words => e.image = <<>>

StageOrder ==
    <<"queued", "initializing", "uploading", "extracting_pages",
      "ocr_processing", "saving_results", "completed">>

StageRank(stage) == CHOOSE i \in DOMAIN StageOrder : StageOrder[i] = stage

Stage(j) == jobs[j].progress.current_stage

\* C6: the stage of a job only moves forward along queued, (initializing,)
\* uploading, extracting_pages, ocr_processing, saving_results, completed: no
\* step takes it back to an earlier stage.
C6_StageOnlyForward ==
    [][\A j \in DOMAIN jobs :
          StageRank(jobs'[j].progress.current_stage) >= StageRank(Stage(j))]_vars

\* C6 witness: a job went through every stage up to completed.
C6_Witness ==
    \E j \in DOMAIN jobs : stage_hist[j] = StageOrder

\* The stages of hist that are among those of path, in the order they were set.
Restrict(hist, path) == SelectSeq(hist, LAMBDA st : st \in Range(path))

FullPath ==
    <<"uploading", "extracting_pages", "ocr_processing", "saving_results", "completed">>
ShortPath == <<"uploading", "extracting_pages", "completed">>

\* C7 (as claimed): every job that reaches completed has passed, in order,
\* through uploading, extracting_pages, ocr_processing and saving_results,
\* also when no sign-in page was found.
C7_NoStageSkipped ==
    \A j \in DOMAIN jobs :
        Stage(j) = "completed" => Restrict(stage_hist[j], FullPath) = FullPath

\* C7 (amended): a job that found at least one sign-in page reaches completed
\* only after uploading, extracting_pages, ocr_processing and saving_results,
\* in that order; a job that found none goes from extracting_pages straight to
\* completed.
C7_StagesInOrderUnlessEmpty ==
    \A j \in DOMAIN jobs :
        Stage(j) = "completed" =>
            Restrict(stage_hist[j], FullPath) =
                IF task[j].all_signin_pages # <<>> THEN FullPath ELSE ShortPath

\* C7 witness: a job with a sign-in page is completed.
C7_Witness ==
    \E j \in DOMAIN jobs :
        Stage(j) = "completed" /\ jobs[j].progress.signin_pages_found > 0

\* C8: when every document of a job has been split and no sign-in page was
\* found, the job ends completed, never failed, with no output file, zero
\* processed pages and no call of process_single_image.
C8_EmptyJobCompletes ==
    \A j \in DOMAIN jobs :
        (task[j].pc = "done" /\ task[j].pdf_idx = task[j].nfiles
            /\ task[j].all_signin_pages = <<>>)
        => /\ jobs[j].status = "completed"
           /\ jobs[j].result # <<>>
           /\ jobs[j].result[1].output_files = <<>>
           /\ jobs[j].result[1].signin_pages_processed = 0
           /\ task[j].all_results = <<>>

\* C9: memory above the high-water mark rejects new submissions only: no
\* admitted job is failed by a memory check.
C9_MemoryNeverFailsAdmittedJob ==
    \A j \in DOMAIN jobs : jobs[j].error # <<MemoryLowError>>

\* C10: once the status of a job is completed or failed, no step changes the
\* job record (status, result, error, progress).
C10_TerminalImmutable ==
    [][\A j \in DOMAIN jobs :
          jobs[j].status \in {"completed", "failed"} => jobs'[j] = jobs[j]]_vars

\* C10 witness: a job is completed with its result while memory usage is
\* above the mark and steps are still taken.
C10_Witness ==
    \E j \in DOMAIN jobs :
        /\ jobs[j].status = "completed"
        /\ jobs[j].result # <<>>
        /\ MemoryLow
        /\ http_status = <<503>>

\* C11: an error that is not recovered locally, raised in any non-terminal
\* stage, moves the job to status failed with the message of that error
\* recorded, and ends the task: no task ends with its job in a non-terminal
\* status.
C11_ErrorFailsJob ==
    \A j \in DOMAIN jobs :
        /\ task[j].raised # <<>> =>
               /\ jobs[j].status = "failed"
               /\ jobs[j].error = task[j].raised
               /\ task[j].pc = "done"
        /\ task[j].pc = "done" => jobs[j].status \in {"completed", "failed"}
        /\ jobs[j].status = "failed" => jobs[j].error # <<>>

\* C11 witness: a job failed in stage ocr_processing with its error recorded.
C11_Witness ==
    \E j \in DOMAIN jobs :
        /\ Stage(j) = "ocr_processing"
        /\ task[j].raised # <<>>
        /\ jobs[j].status = "failed"

\* C12: while the credential catalog is unavailable (classification_service
\* could not be created), no job reaches status completed.
C12_NoCompletionWithoutCatalog ==
    \A j \in DOMAIN jobs :
        ~services[1].classification_service => jobs[j].status # "completed"

\* C13: a job whose processing has lasted longer than JOB_TIMEOUT is failed,
\* whatever work is outstanding.
C13_TimeoutFailsJob ==
    \A j \in DOMAIN jobs :
        task[j].elapsed > JOB_TIMEOUT => jobs[j].status = "failed"

\* C14: the failure of a page in process_single_image and the failure of
\* process_pdf for a document do not fail the job: a task that ends without a
\* job-level error (memory, upload, save) ends completed, a job fails with no
\* other error than those, and in the result of a completed job
\* signin_pages_processed + failed = signin_pages_found.
C14_FailuresIsolated ==
    \A j \in DOMAIN jobs :
        /\ (task[j].pc = "done" /\ task[j].raised = <<>>) =>
               /\ jobs[j].status = "completed"
               /\ jobs[j].result # <<>>
        /\ jobs[j].status = "failed" =>
               /\ jobs[j].error \in {<<MemoryLowError>>, <<"OSError">>}
               /\ \A i \in DOMAIN task[j].all_results :
                      jobs[j].error # task[j].all_results[i].error
        /\ jobs[j].result # <<>> =>
               jobs[j].result[1].signin_pages_processed + jobs[j].result[1].failed
                   = jobs[j].result[1].signin_pages_found

\* C14 witness: a job is completed although process_pdf failed for one of its
\* documents and process_single_image failed for one of its pages.
C14_Witness ==
    \E j \in DOMAIN jobs :
        /\ jobs[j].status = "completed"
        /\ task[j].pdf_failed > 0
        /\ jobs[j].result[1].failed > 0
        /\ jobs[j].result[1].signin_pages_found > 0

\* C15: the records persisted for an expense id do not depend on the order
\* in which the page workers finish: they are the ones the aggregation yields
\* when the page results are taken in source order.
C15_SavedIndependentOfCompletionOrder ==
    agg.pc = "done" => agg.saved = SavedFrames(agg.pages)

\* C16: the records persisted for one expense id never contain two records
\* whose names are equal when compared case-insensitively.
C16_NoDuplicateNamePerExpense ==
    agg.pc = "done" =>
        \A e \in DOMAIN agg.saved :
            \A i, k \in DOMAIN agg.saved[e] :
                i # k => UpperStrip(agg.saved[e][i].Name) # UpperStrip(agg.saved[e][k].Name)

\* C16 witness: two pages of one expense id carried the same name written in
\* different case, and one record of that name was persisted.
C16_Witness ==
    /\ agg.pc = "done"
    /\ \E e \in DOMAIN agg.saved :
          LET combined == CombinedByExpense(agg.all_results)[e] IN
          /\ \E i, k \in DOMAIN combined :
                /\ combined[i].Name # combined[k].Name
                /\ UpperStrip(combined[i].Name) = UpperStrip(combined[k].Name)
          /\ Len(agg.saved[e]) = 1

\* The index of the first record of df that carries the name of df[i],
\* compared case-insensitively.
FirstWithName(df, i) ==
    CHOOSE k \in DOMAIN df :
        /\ UpperStrip(df[k].Name) = UpperStrip(df[i].Name)
        /\ \A m \in 1..(k - 1) : UpperStrip(df[m].Name) # UpperStrip(df[i].Name)

\* C17: classify_ocr_results returns, for every name of the parsed lines
\* (compared case-insensitively), exactly one record, and that record carries
\* the name and the raw credential of the first line with that name.
C17_FirstLineOfNameKept ==
    cls.pc = "done" =>
        LET parsed == ParseOcrResults(cls.text) IN
        \A i \in DOMAIN parsed :
            LET same == {k \in DOMAIN cls.result :
                            UpperStrip(cls.result[k].Name) = UpperStrip(parsed[i].Name)}
                first == parsed[FirstWithName(parsed, i)]
            IN /\ Cardinality(same) = 1
               /\ \A k \in same : /\ cls.result[k].Name = first.Name
                                  /\ cls.result[k].Credential_OCR = first.Credential_OCR

\* C17 witness: a text with two lines for one name, written in different
\* case and with different credentials, was classified into one record.
C17_Witness ==
    /\ cls.pc = "done"
    /\ \E i, k \in DOMAIN cls.classified :
          /\ i < k
          /\ cls.classified[i].Name # cls.classified[k].Name
          /\ UpperStrip(cls.classified[i].Name) = UpperStrip(cls.classified[k].Name)
          /\ cls.classified[i].Credential_OCR # cls.classified[k].Credential_OCR
    /\ Len(cls.result) = 1

\* The catalog rows whose possible name, or canonical credential, is the
\* credential, compared upper-cased.
RowsByName(rows, credential_ocr) ==
    SelectSeq(rows, LAMBDA r : UpperStrip(r.PossibleNames) = UpperStrip(credential_ocr))
RowsByCredential(rows, credential_ocr) ==
    SelectSeq(rows, LAMBDA r : UpperStrip(r.Credential) = UpperStrip(credential_ocr))

\* C18: classify_credential applies the tiers in order and the first success
\* decides: a credential equal to a possible name is classified by the first
\* such row, whatever canonical credential or fuzzy match exists; one that
\* equals no possible name but a canonical credential is classified by the
\* first such row; the fuzzy tier and the default are reached only when both
\* exact tiers found nothing.
C18_TiersInOrder ==
    \A i \in DOMAIN cls.classified :
        LET rec    == cls.classified[i]
            rows   == cls.mapping_df.rows
            byName == RowsByName(rows, rec.Credential_OCR)
            byCred == RowsByCredential(rows, rec.Credential_OCR)
        IN /\ byName # <<>> =>
                 /\ rec.Match_Method = "exact_possiblenames"
                 /\ rec.Classification = byName[1].Classification
                 /\ rec.Credential_Standardized = byName[1].Credential
           /\ (byName = <<>> /\ byCred # <<>>) =>
                 /\ rec.Match_Method = "exact_credential"
                 /\ rec.Classification = byCred[1].Classification
                 /\ rec.Credential_Standardized = byCred[1].Credential
           /\ rec.Match_Method \in {"fuzzy_possiblenames", "no_match"} =>
                 (byName = <<>> /\ byCred = <<>>)

\* C18 witness: a credential that is the possible name of one row and the
\* canonical credential of another row with another classification was
\* classified by the possible name.
C18_Witness ==
    \E i \in DOMAIN cls.classified :
        LET rec    == cls.classified[i]
            byName == RowsByName(cls.mapping_df.rows, rec.Credential_OCR)
            byCred == RowsByCredential(cls.mapping_df.rows, rec.Credential_OCR)
        IN /\ byName # <<>> /\ byCred # <<>>
           /\ byName[1].Classification # byCred[1].Classification
           /\ rec.Match_Method = "exact_possiblenames"

\* classify_credential with the fuzzy tier disabled: the two exact tiers,
\* then the default.
ExactOnly(rows, credential_ocr) ==
    LET byName == RowsByName(rows, credential_ocr)
        byCred == RowsByCredential(rows, credential_ocr)
    IN IF rows = <<>>
       THEN [Classification |-> "Non-HCP", Credential_Standardized |-> credential_ocr,
             Match_Score |-> 0, Match_Method |-> "no_mapping_data"]
       ELSE IF byName # <<>>
       THEN [Classification |-> byName[1].Classification,
             Credential_Standardized |-> byName[1].Credential,
             Match_Score |-> 100, Match_Method |-> "exact_possiblenames"]
       ELSE IF byCred # <<>>
       THEN [Classification |-> byCred[1].Classification,
             Credential_Standardized |-> byCred[1].Credential,
             Match_Score |-> 100, Match_Method |-> "exact_credential"]
       ELSE [Classification |-> "Non-HCP", Credential_Standardized |-> credential_ocr,
             Match_Score |-> 0, Match_Method |-> "no_match"]

\* C19: for a credential shorter than min_fuzzy_length the result of
\* classify_credential is the one obtained with the fuzzy tier disabled: the
\* fuzzy tier is not entered.
C19_ShortSkipsFuzzy ==
    \A i \in DOMAIN cls.classified :
        LET rec == cls.classified[i]
            ex  == ExactOnly(cls.mapping_df.rows, rec.Credential_OCR)
        IN StrLen(UpperStrip(rec.Credential_OCR)) < min_fuzzy_length =>
              /\ rec.Match_Method # "fuzzy_possiblenames"
              /\ rec.Classification = ex.Classification
              /\ rec.Credential_Standardized = ex.Credential_Standardized
              /\ rec.Match_Score = ex.Match_Score
              /\ rec.Match_Method = ex.Match_Method

\* C19 witness: a short credential that the fuzzy tier would match (score at
\* or above the threshold) was classified as unmatched.
C19_Witness ==
    \E i \in DOMAIN cls.classified :
        LET rec == cls.classified[i] IN
        /\ StrLen(UpperStrip(rec.Credential_OCR)) < min_fuzzy_length
        /\ FuzzyMatchCredential(UpperStrip(rec.Credential_OCR), cls.mapping_df.rows) # <<>>
        /\ rec.Match_Method = "no_match"

\* The credential matches no tier of classify_credential.
NoTier(rows, credential_ocr) ==
    /\ RowsByName(rows, credential_ocr) = <<>>
    /\ RowsByCredential(rows, credential_ocr) = <<>>
    /\ \/ StrLen(UpperStrip(credential_ocr)) < min_fuzzy_length
       \/ FuzzyMatchCredential(UpperStrip(credential_ocr), rows) = <<>>

\* The record is in df as an unmatched one: Non-HCP, the raw credential
\* unchanged as canonical credential, score 0.
KeptUnmatched(df, rec) ==
    \E k \in DOMAIN df :
        /\ df[k].Name = rec.Name
        /\ df[k].Credential_OCR = rec.Credential_OCR
        /\ df[k].Classification = "Non-HCP"
        /\ df[k].Credential_Standardized = rec.Credential_OCR
        /\ df[k].Match_Score = 0

NameInFrame(df, n) ==
    \E i \in DOMAIN df : UpperStrip(df[i].Name) = UpperStrip(n)

\* C21: when the text names a field representative in its "Field Employee:"
\* header and that name is, case-insensitively, the name of a parsed record,
\* the output of classify_ocr_results has a record of that name, and every
\* record of that name has classification Field Employee and canonical
\* credential "Field Employee".
C21_HeaderNameInBodyIsFieldEmployee ==
    (cls.pc = "done" /\ cls.text.field_employee # <<>>) =>
        LET n == cls.text.field_employee[1] IN
        NameInFrame(ParseOcrResults(cls.text), n) =>
            /\ NameInFrame(cls.result, n)
            /\ \A k \in DOMAIN cls.result :
                  UpperStrip(cls.result[k].Name) = UpperStrip(n) =>
                      /\ cls.result[k].Classification = "Field Employee"
                      /\ cls.result[k].Credential_Standardized = "Field Employee"

\* C22: when the text names a field representative in its header and no
\* parsed record carries that name, the last record of the output of
\* classify_ocr_results is a record of that name with classification Field
\* Employee, and it is the only record of that name.
C22_HeaderNameNotInBodyAppended ==
    (cls.pc = "done" /\ cls.text.field_employee # <<>>) =>
        LET n == cls.text.field_employee[1] IN
        ~NameInFrame(ParseOcrResults(cls.text), n) =>
            /\ cls.result # <<>>
            /\ UpperStrip(cls.result[Len(cls.result)].Name) = UpperStrip(n)
            /\ cls.result[Len(cls.result)].Classification = "Field Employee"
            /\ \A k \in 1..(Len(cls.result) - 1) :
                  UpperStrip(cls.result[k].Name) # UpperStrip(n)

(***************************************************************************)
(* Page classification and routing.                                        *)
(***************************************************************************)

\* The kind under which a process_pdf call returned page p of its document:
\* "signin" or "dinein" by the list that holds the page, "none" otherwise.
FinalKind(r, p) ==
    IF \E f \in r.signin : f.page = p THEN "signin"
    ELSE IF \E f \in r.dinein : f.page = p THEN "dinein"
    ELSE "none"

\* The process_pdf calls of the current run that classified their pages and
\* returned.
ClassifiedRuns ==
    { i \in DOMAIN pdf.runs : pdf.runs[i].outcome = "returned" /\ ~pdf.runs[i].reused }

\* C23: the batch LLM classification of a document runs if and only if the
\* heuristic classified none of its pages as sign-in; when it ran, every page
\* is returned under the kind the LLM stage answered, and when it did not,
\* under the kind the heuristic answered.
C23_FallbackIffNoSigninFound ==
    \A i \in ClassifiedRuns :
        LET r == pdf.runs[i]
            heuristic_signin ==
                {k \in DOMAIN r.tesseract_results : r.tesseract_results[k].kind = "signin"}
        IN /\ r.fallback <=> heuristic_signin = {}
           /\ r.llm_calls > 0 <=> r.fallback
           /\ \A p \in PagesOf(r.tesseract_results) :
                 FinalKind(r, p) = IF r.fallback THEN KindOf(r.llm_answers, p)
                                   ELSE KindOf(r.tesseract_results, p)

\* C23 witness: a document of two pages, none of them sign-in for the
\* heuristic, was classified again, and the LLM stage made one of them a
\* sign-in page; another document was returned as the heuristic classified it.
C23_Witness ==
    /\ \E i \in ClassifiedRuns :
          LET r == pdf.runs[i] IN
          /\ r.fallback
          /\ Len(r.tesseract_results) = 2
          /\ Cardinality(r.signin) = 1
          /\ Cardinality(r.dinein) = 1
    /\ \E i \in ClassifiedRuns : ~pdf.runs[i].fallback

\* C24: when the run has ended, every page that was passed to the extraction
\* client is a page whose final kind is sign-in, and every sign-in page of
\* every document that was split was passed exactly once.
C24_SentIffSignin ==
    pdf.pc = "done" =>
        /\ \A page \in DOMAIN pdf.sent : page.kind = "signin"
        /\ \A i \in DOMAIN pdf.runs :
              pdf.runs[i].outcome = "returned" =>
                  \A page \in pdf.runs[i].signin : TimesSent(pdf.sent, page) = 1

CompanyRows == ScopeTo(<<stf.company_id>>).rows

\* Whether row r is an HCP row whose credential tbl_State_HCPCredential
\* lists neither under 'federal' nor under the state of the venue.
NotValidInState(r) ==
    /\ r.Classification = "HCP"
    /\ ~\E b \in stf.table :
          /\ b.Credentialid = CredentialID(r)
          /\ Lower(b.state) \in {"federal", Lower(stf.venue_state[1])}

\* C26: when the venue has no state, or the query fails or yields no valid
\* credential, the page is classified with the company-only scope: every
\* credential that is HCP in the company-only scope is classified HCP.
C26_NoValidCredentialFallsBack ==
    (/\ stf.pc = "done"
     /\ stf.venue_state = <<>> \/ ~stf.db_ok \/ stf.valid_credential_ids = {}) =>
        /\ stf.rows = CompanyRows
        /\ \A c \in StateCredentials :
              ClassifyCredential(CompanyRows, c).Classification = "HCP"
                  => stf.result[c].Classification = "HCP"

\* C26 witness: a page of company 1 with a venue state for which the query
\* answered with no credential, and MD came out HCP.
C26_Witness ==
    /\ stf.pc = "done"
    /\ stf.company_id = 1
    /\ stf.venue_state # <<>>
    /\ stf.db_ok
    /\ stf.table # {}
    /\ stf.valid_credential_ids = {}
    /\ stf.result["MD"].Classification = "HCP"

\* C27: when the query yields a non-empty list of valid credentials, no HCP
\* row that is valid neither federally nor in the state of the venue is among
\* the rows the page is classified against, and the Field Employee and
\* Non-HCP rows of the company all are.
C27_InvalidHcpRowsNotUsed ==
    (stf.pc = "done" /\ stf.valid_credential_ids # {}) =>
        /\ \A i \in DOMAIN stf.rows : ~NotValidInState(stf.rows[i])
        /\ SelectSeq(stf.rows, LAMBDA r : r.Classification # "HCP")
              = SelectSeq(CompanyRows, LAMBDA r : r.Classification # "HCP")

(***************************************************************************)
(* Aggregation by expense id.                                              *)
(***************************************************************************)

\* The pages of the job that were processed with success for expense id e.
PagesOfExpense(e) ==
    { i \in DOMAIN agg.pages : agg.pages[i].error = <<>> /\ agg.pages[i].expense_id = <<e>> }

\* The upper-cased names of the records of a frame.
NamesOf(df) == { UpperStrip(df[i].Name) : i \in DOMAIN df }

\* C28: the records are aggregated by expense id and not by document:
\* exactly one file is saved for every expense id that has a successfully
\* processed page and none for another, and the file of an expense id holds
\* every name of every successful page of that id, whatever its document,
\* once.
C28_OneCombinedFilePerExpense ==
    agg.pc = "done" =>
        LET ids == { agg.pages[i].expense_id[1] :
                        i \in {k \in DOMAIN agg.pages : agg.pages[k].error = <<>>} }
        IN /\ DOMAIN agg.saved = ids
           /\ Range(agg.saved_files) = ids
           /\ Len(agg.saved_files) = Cardinality(ids)
           /\ \A e \in ids :
                 /\ NamesOf(agg.saved[e]) =
                       UNION { NamesOf(agg.pages[i].classified_results) : i \in PagesOfExpense(e) }
                 /\ Cardinality(NamesOf(agg.saved[e])) = Len(agg.saved[e])

\* C28 witness: two pages of different documents share an expense id, each
\* gave a name the other did not, and the one file saved holds both names.
C28_Witness ==
    /\ agg.pc = "done"
    /\ Len(agg.saved_files) = 1
    /\ \E i, k \in DOMAIN agg.pages :
          /\ agg.pages[i].filename # agg.pages[k].filename
          /\ agg.pages[i].error = <<>> /\ agg.pages[k].error = <<>>
          /\ agg.pages[i].expense_id = agg.pages[k].expense_id
          /\ NamesOf(agg.pages[i].classified_results)
                \ NamesOf(agg.pages[k].classified_results) # {}
          /\ NamesOf(agg.pages[k].classified_results) # {}
          /\ Len(agg.saved[agg.pages[i].expense_id[1]]) = 2

(***************************************************************************)
(* The result of a completed job.                                          *)
(***************************************************************************)

\* The fields a client reads from the result of a completed job.
ResultFields ==
    {"total_processing_time_minutes", "pdfs_processed", "signin_pages_found",
     "signin_pages_processed", "failed", "unique_expense_ids", "output_files"}

\* C29: whenever the status of a job is completed, its result is set and
\* carries total_processing_time_minutes, pdfs_processed, signin_pages_found,
\* signin_pages_processed, failed, unique_expense_ids and output_files.
C29_CompletedResultHasAllFields ==
    \A j \in DOMAIN jobs :
        jobs[j].status = "completed" =>
            /\ jobs[j].result # <<>>
            /\ ResultFields \subseteq jobs[j].result[1].fields

(***************************************************************************)
(* Splitting before OCR.                                                   *)
(***************************************************************************)

CeilDiv(n, b) == CHOOSE k \in 0..n : k * b >= n /\ \A m \in 0..n : m * b >= n => k <= m

RECURSIVE Flatten(_)
Flatten(seqs) == IF seqs = <<>> THEN <<>> ELSE Head(seqs) \o Flatten(Tail(seqs))

\* C31: when the fallback has run on a document of n pages, the batch
\* classifier was called exactly ceil(n / b) times, b being
\* MAX_CLASSIFICATION_BATCH_SIZE, and the batches put one after the other are
\* the pages 1..n in page order, so that every page is in exactly one batch;
\* no call holds more than b pages, and a document of 5 pages (b = 10) gives
\* one call with its 5 pages.
C31_BatchesCoverPagesInOrder ==
    fb.pc = "done" =>
        /\ Len(fb.calls) = CeilDiv(fb.npages, MAX_CLASSIFICATION_BATCH_SIZE)
        /\ Flatten(fb.calls) = [i \in 1..fb.npages |-> i]
        /\ \A c \in DOMAIN fb.calls :
              Len(fb.calls[c]) \in 1..MAX_CLASSIFICATION_BATCH_SIZE
        /\ fb.npages = 5 => fb.calls = << <<1, 2, 3, 4, 5>> >>

\* A document of more than two batches whose heuristic results did not
\* arrive in page order has gone through the fallback.
C31_Witness ==
    /\ fb.pc = "done"
    /\ fb.npages > 2 * MAX_CLASSIFICATION_BATCH_SIZE
    /\ Len(fb.calls) = 3
    /\ fb.tesseract_results[1].page # 1

\* C32: a call of classify_pages_batch returns one kind per page it was
\* given, in the order of the pages: position i is signin exactly when the
\* call succeeded and item i of the answer exists and names signin, and it is
\* dinein for an item that names no kind, for a missing item and after a
\* failed call; items beyond the pages are dropped.
C32_BatchClassifierTotal ==
    LET images   == fb.last.images
        response == fb.last.response
        returned == fb.last.returned
    IN Len(fb.calls) > 0 =>
          /\ DOMAIN returned = DOMAIN images
          /\ \A i \in DOMAIN images :
                /\ returned[i] \in Kinds
                /\ returned[i] = "signin" <=>
                      /\ ~response.error
                      /\ i <= Len(response.items)
                      /\ ItemContains(response.items[i], "signin")

\* A call was answered with one item too many, among them an item that
\* names no kind and an item that names signin.
C32_Witness ==
    /\ Len(fb.calls) > 0
    /\ ~fb.last.response.error
    /\ Len(fb.last.response.items) = Len(fb.last.images) + 1
    /\ \E i, k \in DOMAIN fb.last.images :
          /\ fb.last.response.items[i] = "unclear"
          /\ fb.last.returned[i] = "dinein"
          /\ fb.last.returned[k] = "signin"

(***************************************************************************)
(* The catalog file and the case identifier of a page.                     *)
(***************************************************************************)

\* C33: the catalog file is parsed at most once in a process, however many
\* pages are scoped to their company.
C33_CatalogParsedOnce ==
    pdf.reads <= 1

\* C34: a file name with fewer than three underscore-separated parts stops
\* neither stage: process_pdf returns the stem of the name as identifier of
\* the document, and no page worker raises for want of an identifier.
C34_NoIdentifierNeverFatal ==
    /\ \A i \in DOMAIN pdf.runs :
          Len(SplitUnderscore(pdf.runs[i].doc)) < 3 =>
              pdf.runs[i].expense_id = pdf.runs[i].doc
    /\ pdf.no_id = {}

(***************************************************************************)
(* De-duplication.                                                         *)
(***************************************************************************)

\* C35: remove_duplicate_names applied to the frame it returned gives the
\* same rows in the same order.
C35_DedupIdempotent ==
    cls.pc = "done" => RemoveDuplicateNames(cls.result) = cls.result

\* A call returned two rows or more after a duplicate was removed.
C35_Witness ==
    /\ cls.pc = "done"
    /\ Len(cls.result) >= 2
    /\ Len(cls.result) < Len(cls.classified)

(***************************************************************************)
(* The progress and the outcome of a job as a poll of /job-status sees     *)
(* them, and the admission of a submission.                                *)
(***************************************************************************)

\* C36: progress.signin_pages_processed of a job never decreases and is
\* never above progress.signin_pages_found.
C36_ProcessedMonotoneAndBounded ==
    [][ \A j \in DOMAIN jobs :
          /\ jobs'[j].progress.signin_pages_processed >=
                 jobs[j].progress.signin_pages_processed
          /\ jobs'[j].progress.signin_pages_processed <=
                 jobs'[j].progress.signin_pages_found
      ]_vars

\* C37: a job whose status is completed has a result and no error, and a job
\* whose status is failed has an error and no result, in every state a poll
\* can read.
C37_OutcomeMatchesStatus ==
    \A j \in DOMAIN jobs :
        /\ jobs[j].status = "completed" => jobs[j].result # <<>> /\ jobs[j].error = <<>>
        /\ jobs[j].status = "failed" => jobs[j].error # <<>> /\ jobs[j].result = <<>>

\* A job failed after its pages went through the OCR stage.
C37_Witness ==
    \E j \in DOMAIN jobs :
        /\ jobs[j].status = "failed"
        /\ jobs[j].progress.signin_pages_processed > 0
        /\ jobs[j].error # <<>>

\* C40: a submission answered with 503 or 400 leaves the jobs registry as it
\* was and schedules no background task.
C40_RejectionCreatesNoJob ==
    [][ (http_status' # http_status /\ http_status' \in {<<503>>, <<400>>}) =>
            (jobs' = jobs /\ task' = task)
      ]_vars

\* A submission was rejected for lack of memory while the registry holds a
\* job that is being processed.
C40_Witness ==
    /\ http_status = <<503>>
    /\ \E j \in DOMAIN jobs : jobs[j].status = "processing"

(***************************************************************************)
(* The pages process_pdf saves and returns.                                *)
(***************************************************************************)

\* The paths of a list are in page order.
InPageOrder(paths) ==
    \A i, k \in DOMAIN paths : i < k => paths[i].page < paths[k].page

\* C38: a process_pdf call that split its document and returned gives back
\* every rendered page exactly once, under the kind it was classified as:
\* the sign-in and the other paths together are as many as the pages, no page
\* is in both lists or twice in one, every path is a file of pages_dir, and
\* each list is in page order, whatever the order in which the heuristic
\* classifications completed.
C38_EveryPageSavedOnceInOrder ==
    /\ pdf.pc = "save" =>
          /\ InPageOrder(pdf.call.saved)
          /\ \A k \in DOMAIN pdf.call.saved :
                pdf.call.saved[k].kind =
                    KindOf(pdf.call.final_results, pdf.call.saved[k].page)
    /\ \A i \in ClassifiedRuns :
        LET r      == pdf.runs[i]
            npages == Len(r.tesseract_results)
            all    == r.signin_paths \o r.dinein_paths
        IN /\ Len(r.signin_paths) + Len(r.dinein_paths) = npages
           /\ \A p \in 1..npages :
                 Cardinality({k \in DOMAIN all : all[k].page = p}) = 1
           /\ \A k \in DOMAIN r.signin_paths : r.signin_paths[k].kind = "signin"
           /\ \A k \in DOMAIN r.dinein_paths : r.dinein_paths[k].kind = "dinein"
           /\ Range(all) \subseteq pdf.pages_dir
           /\ InPageOrder(r.signin_paths)
           /\ InPageOrder(r.dinein_paths)

\* A call whose last page was classified first has saved its pages, of
\* both kinds, and is about to return them.
C38_Witness ==
    /\ pdf.pc = "save"
    /\ pdf.call.npages >= 2
    /\ pdf.call.tesseract_results[1].page = pdf.call.npages
    /\ Len(pdf.call.saved) = pdf.call.npages
    /\ {pdf.call.saved[k].kind : k \in DOMAIN pdf.call.saved} = Kinds

\* C39: when an earlier call on a document raised after it had saved some of
\* the pages, a later call that returns gives back every page of the
\* document.
C39_PartialSplitNotTakenAsComplete ==
    \A i \in DOMAIN pdf.runs :
        LET r == pdf.runs[i] IN
        (r.outcome = "returned" /\ r.doc \in DOMAIN pdf.interrupted) =>
            {f.page : f \in r.signin \cup r.dinein} = 1..pdf.interrupted[r.doc]

====
